---- MODULE Spec2Model ----
(***************************************************************************)
(* Model of the answer normalization -> validation -> template-mapping     *)
(* pipeline of services/excel_filler (app/normalizer.py, app/validator.py, *)
(* app/excel_writer.py).                                                   *)
(*                                                                         *)
(* Text is a sequence of characters.  A character is a one-symbol atom;    *)
(* the non-ASCII characters the code tests for carry ASCII names:          *)
(*   "REI" "WA"  the two characters of the era name (U+4EE4 U+548C)        *)
(*   "NEN" "GATSU" "NICHI"  year / month / day markers (U+5E74 U+6708      *)
(*                          U+65E5)                                        *)
(*   "YEN" the currency kanji (U+5186), "YENSIGN" U+00A5,                  *)
(*   "FWCOMMA" the full-width comma U+FF0C, "RE" the check glyph U+30EC,   *)
(*   "FU" "MEI" / "YOU" "KAKU" "NIN" / "TAI" "SHOU" "GAI" the characters   *)
(*   of the three Japanese placeholder words.                              *)
(* A format tag (free text in the catalog) is the set of marker words it   *)
(* contains; `X in fmt` of the code is membership of the marker.           *)
(***************************************************************************)
EXTENDS Integers, Sequences, FiniteSets, TLC

(***************************************************************************)
(* Characters and elementary string functions (Python str methods).        *)
(***************************************************************************)
Digits == {"0", "1", "2", "3", "4", "5", "6", "7", "8", "9"}

IsDigit(c) == c \in Digits

\* str.strip() / regex \s: the whitespace characters
IsSpace(c) == c \in {" ", "NL"}

DigitVal(c) ==
  CASE c = "0" -> 0 [] c = "1" -> 1 [] c = "2" -> 2 [] c = "3" -> 3
    [] c = "4" -> 4 [] c = "5" -> 5 [] c = "6" -> 6 [] c = "7" -> 7
    [] c = "8" -> 8 [] c = "9" -> 9

DigitChar(n) ==
  CASE n = 0 -> "0" [] n = 1 -> "1" [] n = 2 -> "2" [] n = 3 -> "3"
    [] n = 4 -> "4" [] n = 5 -> "5" [] n = 6 -> "6" [] n = 7 -> "7"
    [] n = 8 -> "8" [] n = 9 -> "9"

\* str.lower() on one character (the letters the model's inputs use)
LowerChar(c) ==
  CASE c = "T" -> "t" [] c = "R" -> "r" [] c = "U" -> "u" [] c = "E" -> "e"
    [] c = "Y" -> "y" [] c = "S" -> "s" [] c = "O" -> "o" [] c = "N" -> "n"
    [] c = "D" -> "d" [] c = "K" -> "k" [] c = "W" -> "w"
    [] OTHER -> c

Lower(s) == [i \in 1..Len(s) |-> LowerChar(s[i])]

MinOf(S) == CHOOSE x \in S : \A y \in S : x <= y

MaxOf(S) == CHOOSE x \in S : \A y \in S : x >= y

\* first index j >= i whose character is not in S, Len(s)+1 when there is none
\* (a greedy  [S]*  of a regular expression, started at i)
SkipIn(s, i, S) ==
  MinOf({j \in i..Len(s) : s[j] \notin S}
          \cup {IF i > Len(s) THEN i ELSE Len(s) + 1})

Spaces == {" ", "NL"}

Strip(s) ==
  LET keep == {i \in 1..Len(s) : ~IsSpace(s[i])}
  IN  IF keep = {} THEN <<>> ELSE SubSeq(s, MinOf(keep), MaxOf(keep))

StartsWith(s, p) == Len(s) >= Len(p) /\ SubSeq(s, 1, Len(p)) = p

AllDigits(s) == \A i \in 1..Len(s) : IsDigit(s[i])

RECURSIVE RemoveChars(_, _)
RemoveChars(s, P) ==
  IF s = <<>> THEN <<>>
  ELSE IF Head(s) \in P THEN RemoveChars(Tail(s), P)
       ELSE <<Head(s)>> \o RemoveChars(Tail(s), P)

\* int(digits) for a digit string whose value fits 31 bits
RECURSIVE ToIntAcc(_, _)
ToIntAcc(ds, acc) ==
  IF ds = <<>> THEN acc ELSE ToIntAcc(Tail(ds), acc * 10 + DigitVal(Head(ds)))

ToInt(ds) == ToIntAcc(ds, 0)

\* str(n) for n >= 0
RECURSIVE NatToStr(_)
NatToStr(n) ==
  IF n < 10 THEN <<DigitChar(n)>> ELSE NatToStr(n \div 10) \o <<DigitChar(n % 10)>>

\* the digit string without its leading zeros (empty when all zeros)
StripZeros(ds) == SubSeq(ds, SkipIn(ds, 1, {"0"}), Len(ds))

\* int(ds) > limit, for a digit string of any length and a limit >= 10^9
\* (Python integers are unbounded; the comparison is done on the digits)
DigitsExceed(ds, limit) ==
  LET sig == StripZeros(ds)
  IN  IF Len(sig) > 10 THEN TRUE
      ELSE IF Len(sig) < 10 THEN FALSE
      ELSE LET a == ToInt(SubSeq(sig, 1, 9))
               b == DigitVal(sig[10])
           IN  a > limit \div 10 \/ (a = limit \div 10 /\ b > limit % 10)

\* results of a call: a value or a raised exception
Ok(s) == [exc |-> "none", val |-> s]

Raise(e) == [exc |-> e, val |-> <<>>]

(***************************************************************************)
(* app/normalizer.py                                                       *)
(***************************************************************************)
\* COMMA_RE = [,<full-width comma>\s<yen kanji><yen sign>]
COMMA_RE == {",", "FWCOMMA", " ", "NL", "YEN", "YENSIGN"}

\* re.fullmatch(r"-?\d+", s)
IsIntLiteral(s) ==
  \/ Len(s) >= 1 /\ AllDigits(s)
  \/ Len(s) >= 2 /\ s[1] = "-" /\ AllDigits(Tail(s))

\* str(int(s)) for s matching -?\d+ : leading zeros dropped, "-0" is "0"
StrOfInt(s) ==
  LET neg == s[1] = "-"
      sig == StripZeros(IF neg THEN Tail(s) ELSE s)
  IN  IF sig = <<>> THEN <<"0">>
      ELSE IF neg THEN <<"-">> \o sig ELSE sig

\* mutant: the cleaned text is returned as it is, without int()
to_int_like_no_int(value) ==
  LET cleaned == RemoveChars(value, COMMA_RE)
  IN  IF cleaned = <<>> THEN <<>>
      ELSE IF ~IsIntLiteral(cleaned) THEN value
      ELSE cleaned

to_int_like(value) ==
  LET cleaned == RemoveChars(value, COMMA_RE)
  IN  IF cleaned = <<>> THEN <<>>
      ELSE IF ~IsIntLiteral(cleaned) THEN value
      ELSE StrOfInt(cleaned)

\* datetime.date(y, m, d) raises ValueError outside these
IsLeap(y) == (y % 4 = 0 /\ y % 100 # 0) \/ y % 400 = 0

DaysInMonth(y, m) ==
  IF m = 2 THEN (IF IsLeap(y) THEN 29 ELSE 28)
  ELSE IF m \in {4, 6, 9, 11} THEN 30 ELSE 31

\* datetime.MINYEAR = 1, datetime.MAXYEAR = 9999
ValidDate(y, m, d) ==
  /\ 1 <= y /\ y <= 9999
  /\ 1 <= m /\ m <= 12
  /\ 1 <= d /\ d <= DaysInMonth(y, m)

\* the largest C int: date() raises OverflowError for an argument above it
CIntMax == 2147483647

ReiwaOffset == 2018

\* "%0<w>d" % n
RECURSIVE ZeroPad(_, _)
ZeroPad(s, w) == IF Len(s) >= w THEN s ELSE ZeroPad(<<"0">> \o s, w)

\* date(y, m, d).isoformat()
IsoFormat(y, m, d) ==
  ZeroPad(NatToStr(y), 4) \o <<"-">> \o ZeroPad(NatToStr(m), 2)
    \o <<"-">> \o ZeroPad(NatToStr(d), 2)

\* a regular-expression match: its three groups and the index of its last
\* character
NoMatch == [ok |-> FALSE, g1 |-> <<>>, g2 |-> <<>>, g3 |-> <<>>, last |-> 0]

\* one  \s*(\d+)\s*<marker>  of WAREKI_RE, matched from position i: the
\* group and the position after the marker.  The classes \s, \d and the
\* markers are disjoint, so the greedy match is the only one.
NoGroup == [ok |-> FALSE, g |-> <<>>, next |-> 0]

GroupEnd(s, a1, a2, a3, marker) ==
  IF a2 > a1 /\ a3 <= Len(s) /\ s[a3] = marker
  THEN [ok |-> TRUE, g |-> SubSeq(s, a1, a2 - 1), next |-> a3 + 1]
  ELSE NoGroup

GroupDigits(s, a1, a2, marker) == GroupEnd(s, a1, a2, SkipIn(s, a2, Spaces), marker)

GroupFrom(s, a1, marker) == GroupDigits(s, a1, SkipIn(s, a1, Digits), marker)

GroupAt(s, i, marker) == GroupFrom(s, SkipIn(s, i, Spaces), marker)

\* WAREKI_RE matched with its first character at position i:
\*   REI WA \s*(\d+)\s* NEN \s*(\d+)\s* GATSU \s*(\d+)\s* NICHI
WarekiDay(y, m, d) ==
  IF ~d.ok THEN NoMatch
  ELSE [ok |-> TRUE, g1 |-> y.g, g2 |-> m.g, g3 |-> d.g, last |-> d.next - 1]

WarekiMonth(s, y, m) ==
  IF ~m.ok THEN NoMatch ELSE WarekiDay(y, m, GroupAt(s, m.next, "NICHI"))

WarekiYear(s, y) ==
  IF ~y.ok THEN NoMatch ELSE WarekiMonth(s, y, GroupAt(s, y.next, "GATSU"))

WarekiMatchAt(s, i) ==
  IF ~(i + 1 <= Len(s) /\ s[i] = "REI" /\ s[i + 1] = "WA") THEN NoMatch
  ELSE WarekiYear(s, GroupAt(s, i + 2, "NEN"))

\* WAREKI_RE.search(value): the leftmost match
WarekiFirst(s, hits) == IF hits = {} THEN NoMatch ELSE WarekiMatchAt(s, MinOf(hits))

WarekiSearch(s) == WarekiFirst(s, {i \in 1..Len(s) : WarekiMatchAt(s, i).ok})

\* ISO_RE.match(value):  ^(\d{4})[-/](\d{1,2})[-/](\d{1,2})$
\* m2 and d2 are the positions after the month and the day digits
IsoMatchEnds(s, m2, d2) ==
  IF /\ d2 - (m2 + 1) \in {1, 2}
     /\ (d2 = Len(s) + 1 \/ (d2 = Len(s) /\ s[d2] = "NL"))
  THEN [ok |-> TRUE, g1 |-> SubSeq(s, 1, 4), g2 |-> SubSeq(s, 6, m2 - 1),
        g3 |-> SubSeq(s, m2 + 1, d2 - 1), last |-> d2 - 1]
  ELSE NoMatch

IsoMatchMonth(s, m2) ==
  IF m2 - 6 \in {1, 2} /\ m2 <= Len(s) /\ s[m2] \in {"-", "/"}
  THEN IsoMatchEnds(s, m2, SkipIn(s, m2 + 1, Digits))
  ELSE NoMatch

IsoMatch(s) ==
  IF ~(Len(s) >= 8 /\ AllDigits(SubSeq(s, 1, 4)) /\ s[5] \in {"-", "/"})
  THEN NoMatch
  ELSE IsoMatchMonth(s, SkipIn(s, 6, Digits))

\* date(western, month, day) of _wareki_to_iso on the groups of a match
WarekiDate(value, match) ==
  IF ~match.ok THEN Ok(value)
  ELSE IF \/ DigitsExceed(match.g1, CIntMax - ReiwaOffset)
          \/ DigitsExceed(match.g2, CIntMax)
          \/ DigitsExceed(match.g3, CIntMax)
  THEN Raise("OverflowError")
  ELSE IF ~ValidDate(ToInt(match.g1) + ReiwaOffset, ToInt(match.g2), ToInt(match.g3))
  THEN Ok(value)
  ELSE Ok(IsoFormat(ToInt(match.g1) + ReiwaOffset, ToInt(match.g2), ToInt(match.g3)))

wareki_to_iso(value) == WarekiDate(value, WarekiSearch(value))

\* the text _iso_to_wareki builds from the groups of a match; offset is the
\* era offset
WarekiText(value, match, offset) ==
  IF ~match.ok THEN value
  ELSE IF ~ValidDate(ToInt(match.g1), ToInt(match.g2), ToInt(match.g3)) THEN value
  ELSE IF ToInt(match.g1) < 2019
  THEN NatToStr(ToInt(match.g1)) \o <<"NEN">> \o NatToStr(ToInt(match.g2))
         \o <<"GATSU">> \o NatToStr(ToInt(match.g3)) \o <<"NICHI">>
  ELSE <<"REI", "WA">> \o NatToStr(ToInt(match.g1) - offset) \o <<"NEN">>
         \o NatToStr(ToInt(match.g2)) \o <<"GATSU">>
         \o NatToStr(ToInt(match.g3)) \o <<"NICHI">>

\* mutant: the era year is computed with the offset 2019
iso_to_wareki_offset(value) == WarekiText(value, IsoMatch(value), 2019)

iso_to_wareki(value) == WarekiText(value, IsoMatch(value), ReiwaOffset)

\* fmt.lower() on one marker word of a format tag
LowerWord(w) ==
  CASE w = "YYYY" -> "yyyy" [] w = "Number" -> "number"
    [] w = "Currency" -> "currency" [] w = "CHECKBOX" -> "checkbox"
    [] w = "0XX" -> "0xx"
    [] OTHER -> w

FmtLower(fmt) == {LowerWord(w) : w \in fmt}

\* the truthy tokens of a checkbox: "1", "true", "yes", "on", the check glyph
TruthyTokens ==
  {<<"1">>, <<"t", "r", "u", "e">>, <<"y", "e", "s">>, <<"o", "n">>, <<"RE">>}

\* datetime.strptime(text, "%Y-%m-%d") on a text ISO_RE matched, with "/"
\* replaced by "-": ValueError unless the groups are a real calendar date
StrptimeDate(raw, match) ==
  IF Len(raw) > 0 /\ raw[Len(raw)] = "NL" THEN Raise("ValueError")
  ELSE IF ~ValidDate(ToInt(match.g1), ToInt(match.g2), ToInt(match.g3))
  THEN Raise("ValueError")
  ELSE Ok(IsoFormat(ToInt(match.g1), ToInt(match.g2), ToInt(match.g3)))

strptime_iso(raw) == StrptimeDate(raw, IsoMatch(raw))

\* a raw value is None, a str, or an int/float given by its str() text
NoneValue == [kind |-> "none", text |-> <<>>]

StrValue(s) == [kind |-> "str", text |-> s]

NumValue(s) == [kind |-> "num", text |-> s]

\* the branch of lines 63-82 a format tag selects: the first that matches
NormalizeBranch(fmt) ==
  IF "yyyy" \in FmtLower(fmt) \/ "HIDZUKE" \in fmt \/ "WAREKI" \in fmt
  THEN "date"
  ELSE IF "KINGAKU" \in fmt \/ "currency" \in FmtLower(fmt) THEN "currency"
  ELSE IF "SUUJI" \in fmt \/ "number" \in FmtLower(fmt) THEN "number"
  ELSE IF "checkbox" \in FmtLower(fmt) THEN "checkbox"
  ELSE "text"

\* the body of the branch
NormalizeIn(raw, branch) ==
  IF branch = "date"
  THEN IF StartsWith(raw, <<"REI", "WA">>) THEN wareki_to_iso(raw)
       ELSE IF IsoMatch(raw).ok THEN strptime_iso(raw)
       ELSE Ok(raw)
  ELSE IF branch \in {"currency", "number"} THEN Ok(to_int_like(raw))
  ELSE IF branch = "checkbox"
  THEN Ok(IF Lower(raw) \in TruthyTokens
          THEN <<"t", "r", "u", "e">> ELSE <<"f", "a", "l", "s", "e">>)
  ELSE Ok(raw)

\* normalize_value from line 58 on: raw is str(raw_value), stripped
NormalizeText(raw, fmt) ==
  IF raw = <<>> THEN Ok(<<>>) ELSE NormalizeIn(raw, NormalizeBranch(fmt))

normalize_value(raw_value, fmt) ==
  IF raw_value.kind = "none" THEN Ok(<<>>)
  ELSE IF raw_value.kind = "num" THEN NormalizeText(raw_value.text, fmt)
  ELSE NormalizeText(Strip(raw_value.text), fmt)

\* a spreadsheet value: a text or an integer, or a raised exception
XStr(s) == [exc |-> "none", kind |-> "str", str |-> s, int |-> 0]

XInt(n) == [exc |-> "none", kind |-> "int", str |-> <<>>, int |-> n]

XRaise(e) == [exc |-> e, kind |-> "none", str |-> <<>>, int |-> 0]

\* int(s) for s matching -?\d+
IntOf(s) == IF s[1] = "-" THEN 0 - ToInt(Tail(s)) ELSE ToInt(s)

\* value_type.lower() for the type tags of a mapping entry
LowerType(t) ==
  CASE t = "Currency" -> "currency" [] t = "DATE_WAREKI" -> "date_wareki"
    [] OTHER -> t

\* the int-or-text result of the number and currency types
ExcelNumber(norm_value, int_like) ==
  IF IsIntLiteral(int_like) THEN XInt(IntOf(int_like)) ELSE XStr(norm_value)

ExcelResult(r) == IF r.exc = "none" THEN XStr(r.val) ELSE XRaise(r.exc)

\* to_excel_value from line 90 on: vt is (value_type or "text").lower()
ExcelTyped(norm_value, vt) ==
  IF vt \in {"text", "text_multiline"} THEN XStr(norm_value)
  ELSE IF vt \in {"number", "currency"}
  THEN ExcelNumber(norm_value, to_int_like(norm_value))
  ELSE IF vt = "checkbox"
  THEN XStr(IF Lower(norm_value) \in TruthyTokens THEN <<"RE">> ELSE <<>>)
  ELSE IF vt = "date_wareki" THEN XStr(iso_to_wareki(norm_value))
  ELSE IF vt = "date_iso"
  THEN IF StartsWith(norm_value, <<"REI", "WA">>)
       THEN ExcelResult(wareki_to_iso(norm_value))
       ELSE XStr(norm_value)
  ELSE XStr(norm_value)

to_excel_value(norm_value, value_type) ==
  IF norm_value = <<>> THEN XStr(<<>>)
  ELSE ExcelTyped(norm_value, LowerType(IF value_type = "" THEN "text" ELSE value_type))

\* normalize_answers(answers, field_lookup): answers is the ordered dict of
\* the raw answers, a sequence of [field_id, raw_value]; the result is the
\* ordered dict of [field_id, raw, norm], or the exception normalize_value
\* raised
FormatAt(field_lookup, hits) ==
  IF hits = {} THEN {} ELSE field_lookup[MaxOf(hits)].format

\* str(field_lookup.get(field_id, {}).get("format", ""))
LookupFormat(field_lookup, field_id) ==
  FormatAt(field_lookup,
           {i \in 1..Len(field_lookup) : field_lookup[i].field_id = field_id})

\* "" if raw_value is None else str(raw_value).strip()
AnswerText(raw_value) ==
  IF raw_value.kind = "none" THEN <<>>
  ELSE IF raw_value.kind = "num" THEN raw_value.text
  ELSE Strip(raw_value.text)

NormalizedEntry(field_id, raw, res, rest) ==
  IF res.exc # "none" THEN [exc |-> res.exc, val |-> <<>>]
  ELSE IF rest.exc # "none" THEN rest
  ELSE [exc |-> "none",
        val |-> <<[field_id |-> field_id, raw |-> raw, norm |-> res.val]>>
                  \o rest.val]

\* the loop of normalize_answers: the first exception ends it
RECURSIVE normalize_answers(_, _)
normalize_answers(answers_, field_lookup) ==
  IF answers_ = <<>> THEN [exc |-> "none", val |-> <<>>]
  ELSE NormalizedEntry(
         Head(answers_).field_id,
         AnswerText(Head(answers_).raw_value),
         normalize_value(StrValue(AnswerText(Head(answers_).raw_value)),
                         LookupFormat(field_lookup, Head(answers_).field_id)),
         normalize_answers(Tail(answers_), field_lookup))

(***************************************************************************)
(* app/schema_loader.py                                                    *)
(***************************************************************************)
\* get_field_lookup: the catalog fields with a non-empty id (a later field
\* replaces an earlier one with the same id: LookupFormat takes the last)
RECURSIVE get_field_lookup(_)
get_field_lookup(fields_) ==
  IF fields_ = <<>> THEN <<>>
  ELSE IF Head(fields_).field_id # ""
  THEN <<Head(fields_)>> \o get_field_lookup(Tail(fields_))
  ELSE get_field_lookup(Tail(fields_))

(***************************************************************************)
(* app/validator.py                                                        *)
(***************************************************************************)
\* the words the placeholder check accepts: the three Japanese placeholder
\* words, "unknown" and "todo"
UNKNOWN_MARKERS ==
  { <<"FU", "MEI">>, <<"YOU", "KAKU", "NIN">>, <<"TAI", "SHOU", "GAI">>,
    <<"u", "n", "k", "n", "o", "w", "n">>, <<"t", "o", "d", "o">> }

\* str(required).strip().lower() of the catalog's required value: the atoms
\* "True"/"False" are the booleans, "HISSU" the word for "required",
\* "HISSU_NOTE" a text containing it, "NINI" the word for "optional"
RequiredLower(required) ==
  CASE required = "True" -> "true" [] required = "False" -> "false"
    [] required = "Yes" -> "yes"
    [] OTHER -> required

required_flag(required) ==
  \/ RequiredLower(required) \in {"true", "1", "yes", "HISSU", "required"}
  \/ required \in {"HISSU", "HISSU_NOTE"}

\* NUMERIC_RE = ^\d+$
NumericMatch(s) == Len(s) >= 1 /\ AllDigits(s)

\* PHONE_RE = ^\d{2,4}-?\d{2,4}-?\d{3,4}$
PhoneMatch(s) ==
  \E a \in 2..4, h1 \in 0..1, b \in 2..4, h2 \in 0..1, c \in 3..4 :
    /\ Len(s) = a + h1 + b + h2 + c
    /\ AllDigits(SubSeq(s, 1, a))
    /\ h1 = 1 => s[a + 1] = "-"
    /\ AllDigits(SubSeq(s, a + h1 + 1, a + h1 + b))
    /\ h2 = 1 => s[a + h1 + b + 1] = "-"
    /\ AllDigits(SubSeq(s, a + h1 + b + h2 + 1, Len(s)))

\* POSTAL_RE = ^\d{3}-?\d{4}$  (search; $ also matches before a last newline)
PostalMatch(s) ==
  LET body == IF Len(s) > 0 /\ s[Len(s)] = "NL" THEN SubSeq(s, 1, Len(s) - 1)
              ELSE s
  IN  \/ Len(body) = 7 /\ AllDigits(body)
      \/ /\ Len(body) = 8 /\ AllDigits(SubSeq(body, 1, 3)) /\ body[4] = "-"
         /\ AllDigits(SubSeq(body, 5, 8))

Issue(field_id, severity, message) ==
  [field_id |-> field_id, severity |-> severity, message |-> message]

AnswerAt(normalized_, field_id, hits) ==
  IF hits = {} THEN [field_id |-> field_id, raw |-> <<>>, norm |-> <<>>]
  ELSE normalized_[MaxOf(hits)]

\* normalized_answers.get(field_id, {"raw": "", "norm": ""})
AnswerObj(normalized_, field_id) ==
  AnswerAt(normalized_, field_id,
           {i \in 1..Len(normalized_) : normalized_[i].field_id = field_id})

\* mutant: a placeholder on a required field is reported as an error
RequiredIssuesAsError(field_id, required, raw) ==
  IF ~required_flag(required) THEN <<>>
  ELSE IF raw = <<>> THEN <<Issue(field_id, "error", "required_missing")>>
  ELSE IF Lower(raw) \in UNKNOWN_MARKERS \/ raw \in UNKNOWN_MARKERS
  THEN <<Issue(field_id, "error", "required_placeholder")>>
  ELSE <<>>

\* the required check (lines 36-52)
RequiredIssues(field_id, required, raw) ==
  IF ~required_flag(required) THEN <<>>
  ELSE IF raw = <<>> THEN <<Issue(field_id, "error", "required_missing")>>
  ELSE IF Lower(raw) \in UNKNOWN_MARKERS \/ raw \in UNKNOWN_MARKERS
  THEN <<Issue(field_id, "warning", "required_placeholder")>>
  ELSE <<>>

\* the four format checks (lines 57-93), in the order of the code
NumberIssue(field_id, f, norm_) ==
  IF ("SUUJI" \in f \/ "number" \in FmtLower(f)) /\ ~NumericMatch(norm_)
  THEN <<Issue(field_id, "warning", "number_format")>> ELSE <<>>

PhoneIssue(field_id, f, norm_) ==
  IF ("DENWA" \in f \/ "0xx" \in FmtLower(f)) /\ ~PhoneMatch(norm_)
  THEN <<Issue(field_id, "warning", "phone_format")>> ELSE <<>>

PostalIssue(field_id, f, norm_) ==
  IF ("YUUBIN" \in f \/ "POSTMARK" \in f) /\ ~PostalMatch(norm_)
  THEN <<Issue(field_id, "warning", "postal_format")>> ELSE <<>>

DateIssue(field_id, f, norm_) ==
  IF /\ "yyyy" \in FmtLower(f) \/ "HIDZUKE" \in f \/ "WAREKI" \in f
     /\ ~(IsoMatch(norm_).ok \/ StartsWith(norm_, <<"REI", "WA">>))
  THEN <<Issue(field_id, "warning", "date_format")>> ELSE <<>>

FormatChecks(field_id, f, norm_) ==
  NumberIssue(field_id, f, norm_) \o PhoneIssue(field_id, f, norm_)
    \o PostalIssue(field_id, f, norm_) \o DateIssue(field_id, f, norm_)

\* mutant: the format checks also run on an empty normalized value
FormatIssuesAlways(field_id, f, norm_) == FormatChecks(field_id, f, norm_)

\* if norm == "": continue (lines 54-55), then the format checks
FormatIssues(field_id, f, norm_) ==
  IF norm_ = <<>> THEN <<>> ELSE FormatChecks(field_id, f, norm_)

AnswerIssues(field, answer_obj) ==
  RequiredIssues(field.field_id, field.required, Strip(answer_obj.raw))
    \o FormatIssues(field.field_id, field.format, Strip(answer_obj.norm))

\* one iteration of the loop over the catalog: the issues of one field
FieldIssues(field, normalized_) ==
  IF field.field_id = "" THEN <<>>
  ELSE AnswerIssues(field, AnswerObj(normalized_, field.field_id))

RECURSIVE CatalogIssues(_, _)
CatalogIssues(fields_, normalized_) ==
  IF fields_ = <<>> THEN <<>>
  ELSE FieldIssues(Head(fields_), normalized_)
         \o CatalogIssues(Tail(fields_), normalized_)

\* the tag words field_id.upper() contains: "VEHICLE", "CAR", "SHARYOU" (the
\* word for vehicle), "DRIVER", "UNTENSHA" (the word for driver)
UpperTags(field_id) ==
  CASE field_id = "VEHICLE_COUNT" -> {"VEHICLE"}
    [] field_id = "car_count" -> {"CAR"}
    [] field_id = "driver_count" -> {"DRIVER"}
    [] field_id = "UNTENSHA_SUU" -> {"UNTENSHA"}
    [] OTHER -> {}

\* str.isdigit(): true of every digit character, also of those that are not
\* decimal digits (the superscript two), which \d and int() do not accept
IsDigitLike(c) == c \in Digits \cup {"SUP2"}

isdigit(s) == Len(s) >= 1 /\ \A i \in 1..Len(s) : IsDigitLike(s[i])

\* the answers that pass line 100 and whose field id carries one of the tags
Counted(normalized_, tags) ==
  {i \in 1..Len(normalized_) :
     /\ isdigit(normalized_[i].norm)
     /\ UpperTags(normalized_[i].field_id) \cap tags # {}}

\* the value the loop over the answers leaves in vehicle_count / driver_count:
\* that of the last answer with such a field id and an all-digit norm; -1 is
\* None
CountAt(normalized_, hits) ==
  IF hits = {} THEN -1 ELSE ToInt(normalized_[MaxOf(hits)].norm)

LastCount(normalized_, tags) ==
  CountAt(normalized_, Counted(normalized_, tags))

VehicleTags == {"VEHICLE", "CAR", "SHARYOU"}

DriverTags == {"DRIVER", "UNTENSHA"}

\* int(value) of lines 104 and 106 raises ValueError on a value that is not
\* made of decimal digits
IntRaises(normalized_) ==
  \E i \in Counted(normalized_, VehicleTags \cup DriverTags) :
    ~AllDigits(normalized_[i].norm)

\* the comparison of line 108
CountsDisagree(vehicle_count, driver_count) ==
  IF vehicle_count # -1 /\ driver_count # -1 /\ driver_count < vehicle_count
  THEN <<Issue("_cross_check", "warning", "cross_check")>> ELSE <<>>

CrossCheck(normalized_) ==
  IF IntRaises(normalized_) THEN Raise("ValueError")
  ELSE Ok(CountsDisagree(LastCount(normalized_, VehicleTags),
                         LastCount(normalized_, DriverTags)))

\* the list of line 117, or the exception that ended the call
ValidateResult(catalog_issues, cross) ==
  IF cross.exc # "none" THEN cross ELSE Ok(catalog_issues \o cross.val)

validate_answers(fields_, normalized_) ==
  ValidateResult(CatalogIssues(fields_, normalized_), CrossCheck(normalized_))

(***************************************************************************)
(* app/excel_writer.py.  A cell expression is a sequence of tokens: sheet  *)
(* names and cell references (one token each), "!", ";", "NL" and " ".     *)
(* A target is a pair of token sequences <<sheet, cell>>.                  *)
(***************************************************************************)
infer_value_type(fmt_) ==
  IF "WAREKI" \in fmt_ THEN "date_wareki"
  ELSE IF "yyyy" \in FmtLower(fmt_) \/ "HIDZUKE" \in fmt_ THEN "date_iso"
  ELSE IF "KINGAKU" \in fmt_ THEN "currency"
  ELSE IF "SUUJI" \in fmt_ THEN "number"
  ELSE IF "checkbox" \in FmtLower(fmt_) \/ "CHECK_KANA" \in fmt_ THEN "checkbox"
  ELSE IF "KAIGYOU" \in fmt_ \/ "FUKUSUUGYOU" \in fmt_ THEN "text_multiline"
  ELSE "text"

\* cell_spec.replace("\n", ";")
ReplaceNewlines(s) == [i \in 1..Len(s) |-> IF s[i] = "NL" THEN ";" ELSE s[i]]

\* s.split(sep)
RECURSIVE Split(_, _)
SplitFirst(s, sep, hits) ==
  IF hits = {} THEN <<s>>
  ELSE <<SubSeq(s, 1, MinOf(hits) - 1)>>
         \o Split(SubSeq(s, MinOf(hits) + 1, Len(s)), sep)

Split(s, sep) == SplitFirst(s, sep, {i \in 1..Len(s) : s[i] = sep})

NoTarget == [ok |-> FALSE, sheet |-> <<>>, cell |-> <<>>]

\* cleaned.split("!", 1), both parts stripped
SplitSheet(cleaned, bang) ==
  [ok |-> TRUE, sheet |-> Strip(SubSeq(cleaned, 1, bang - 1)),
   cell |-> Strip(SubSeq(cleaned, bang + 1, Len(cleaned)))]

ParseCleaned(cleaned, default_sheet) ==
  IF cleaned = <<>> THEN NoTarget
  ELSE IF \E i \in 1..Len(cleaned) : cleaned[i] = "!"
  THEN SplitSheet(cleaned, MinOf({i \in 1..Len(cleaned) : cleaned[i] = "!"}))
  ELSE IF default_sheet # <<>>
  THEN [ok |-> TRUE, sheet |-> default_sheet, cell |-> cleaned]
  ELSE NoTarget

\* _parse_target_segment; default_sheet <<>> is None
parse_target_segment(segment, default_sheet) ==
  ParseCleaned(Strip(segment), default_sheet)

\* the loop of parse_targets: the segments that parse, in order
TargetOf(parsed) == IF parsed.ok THEN <<<<parsed.sheet, parsed.cell>>>> ELSE <<>>

RECURSIVE ParsedTargets(_, _)
ParsedTargets(segments, default_sheet) ==
  IF segments = <<>> THEN <<>>
  ELSE TargetOf(parse_target_segment(Strip(Head(segments)), default_sheet))
         \o ParsedTargets(Tail(segments), default_sheet)

parse_targets(cell_spec, default_sheet) ==
  IF cell_spec = <<>> THEN <<>>
  ELSE ParsedTargets(Split(ReplaceNewlines(cell_spec), ";"), default_sheet)

\* the instrumented steps of write_templates: a note appended to `notes` or a
\* call of _write_to_target, tagged with the template's position and the
\* pass (0: source check, 1: explicit mappings, 2: auto mapping); "raise" is
\* an exception leaving write_templates
NoteEvent(t, pass, field_id, template_key, level, message) ==
  [kind |-> "note", t |-> t, pass |-> pass, field_id |-> field_id,
   template |-> template_key, level |-> level, message |-> message,
   sheet |-> <<>>, cell |-> <<>>, value |-> XStr(<<>>)]

WriteEvent(t, pass, field_id, template_key, sheet, cell, value) ==
  [kind |-> "write", t |-> t, pass |-> pass, field_id |-> field_id,
   template |-> template_key, level |-> "", message |-> <<>>,
   sheet |-> sheet, cell |-> cell, value |-> value]

RaiseEvent(t, pass, field_id, template_key, exc) ==
  [kind |-> "raise", t |-> t, pass |-> pass, field_id |-> field_id,
   template |-> template_key, level |-> "", message |-> <<exc>>,
   sheet |-> <<>>, cell |-> <<>>, value |-> XStr(<<>>)]

\* the note dict appended to `notes`
NoteOf(event) ==
  [field_id |-> event.field_id, template |-> event.template,
   level |-> event.level, message |-> event.message]

RECURSIVE NotesOf(_)
NotesOf(events) ==
  IF events = <<>> THEN <<>>
  ELSE IF Head(events).kind = "note"
  THEN <<NoteOf(Head(events))>> \o NotesOf(Tail(events))
  ELSE NotesOf(Tail(events))

\* the steps taken before an exception (all of them when there is none)
UntilRaiseAt(events, raises) ==
  IF raises = {} THEN events ELSE SubSeq(events, 1, MinOf(raises) - 1)

UntilRaise(events) ==
  UntilRaiseAt(events, {i \in 1..Len(events) : events[i].kind = "raise"})

Raises(events) == \E i \in 1..Len(events) : events[i].kind = "raise"

\* str(template.get("template_key", source_file)).strip(); NoKey: no such key
NoKey == "(none)"

TemplateKey(template) ==
  IF template.template_key = NoKey THEN template.source_file
  ELSE template.template_key

\* str(template.get("output_file", "")).strip() or f"filled_{source_file}"
OutputFile(template) ==
  IF template.output_file # "" THEN <<template.output_file>>
  ELSE <<"filled_", template.source_file>>

\* source_path.suffix.lower() == ".xls"
Suffix(file) ==
  CASE file \in {"old.xls", "gone.xls"} -> ".xls"
    [] file = "OLD.XLS" -> ".XLS"
    [] OTHER -> ".xlsx"

LowerSuffix(suffix) == IF suffix = ".XLS" THEN ".xls" ELSE suffix

IsLegacyXls(file) == LowerSuffix(Suffix(file)) = ".xls"

\* mutant: a skipped template is recorded at the wrong level
SkipEventsWarningOnly(t, template, dir) ==
  IF template.source_file \notin DOMAIN dir
  THEN <<NoteEvent(t, 0, "*", TemplateKey(template), "warning",
                   <<"template_missing", template.source_file>>)>>
  ELSE IF IsLegacyXls(template.source_file)
  THEN <<NoteEvent(t, 0, "*", TemplateKey(template), "warning",
                   <<"xls_unsupported">>)>>
  ELSE <<>>

\* lines 132-152: the note of a template that is skipped; dir maps the files
\* of template_dir to the sheet names of their workbooks
SkipEvents(t, template, dir) ==
  IF template.source_file \notin DOMAIN dir
  THEN <<NoteEvent(t, 0, "*", TemplateKey(template), "error",
                   <<"template_missing", template.source_file>>)>>
  ELSE IF IsLegacyXls(template.source_file)
  THEN <<NoteEvent(t, 0, "*", TemplateKey(template), "warning",
                   <<"xls_unsupported">>)>>
  ELSE <<>>

\* mutant: the loop over the targets ends at the first missing sheet
RECURSIVE TargetEventsBreak(_, _, _, _, _, _, _)
TargetEventsBreak(t, pass, field_id, key, targets, sheetnames, value) ==
  IF targets = <<>> THEN <<>>
  ELSE IF Head(targets)[1] \notin sheetnames
  THEN <<NoteEvent(t, pass, field_id, key, "warning",
                   <<"sheet_missing">> \o Head(targets)[1])>>
  ELSE <<WriteEvent(t, pass, field_id, key, Head(targets)[1],
                    Head(targets)[2], value)>>
         \o TargetEventsBreak(t, pass, field_id, key, Tail(targets),
                              sheetnames, value)

\* the loop over the targets (lines 185-197 and 231-243)
RECURSIVE TargetEvents(_, _, _, _, _, _, _)
TargetEvents(t, pass, field_id, key, targets, sheetnames, value) ==
  IF targets = <<>> THEN <<>>
  ELSE (IF Head(targets)[1] \notin sheetnames
        THEN <<NoteEvent(t, pass, field_id, key, "warning",
                         <<"sheet_missing">> \o Head(targets)[1])>>
        ELSE <<WriteEvent(t, pass, field_id, key, Head(targets)[1],
                          Head(targets)[2], value)>>)
         \o TargetEvents(t, pass, field_id, key, Tail(targets), sheetnames,
                         value)

\* answers_norm.get(field_id, "")
AnswerNormAt(answers_norm_, hits) ==
  IF hits = {} THEN <<>> ELSE answers_norm_[MaxOf(hits)].norm

AnswerNorm(answers_norm_, field_id) ==
  AnswerNormAt(answers_norm_,
               {i \in 1..Len(answers_norm_) : answers_norm_[i].field_id = field_id})

\* line 172: the expression given to parse_targets in pass 1
ExplicitCellSpec(sheet_name, cell_spec) ==
  IF sheet_name # <<>> /\ ~(\E i \in 1..Len(cell_spec) : cell_spec[i] = "!")
  THEN sheet_name \o <<"!">> \o cell_spec
  ELSE cell_spec

\* lines 173-197: after the targets are parsed
ExplicitWrites(t, key, conf, targets, sheetnames, value) ==
  IF targets = <<>>
  THEN <<NoteEvent(t, 1, conf.field_id, key, "warning", <<"bad_cell">>)>>
  ELSE IF value.exc # "none"
  THEN <<RaiseEvent(t, 1, conf.field_id, key, value.exc)>>
  ELSE TargetEvents(t, 1, conf.field_id, key, targets, sheetnames, value)

\* one iteration of pass 1 (lines 163-197)
ExplicitEntry(t, key, conf, answer, sheetnames) ==
  IF answer = <<>> THEN <<>>
  ELSE ExplicitWrites(t, key, conf,
                      parse_targets(ExplicitCellSpec(Strip(conf.sheet),
                                                     Strip(conf.cell)), <<>>),
                      sheetnames, to_excel_value(answer, conf.type))

RECURSIVE ExplicitPass(_, _, _, _, _)
ExplicitPass(t, key, mappings, answers_norm_, sheetnames) ==
  IF mappings = <<>> THEN <<>>
  ELSE ExplicitEntry(t, key, Head(mappings),
                     AnswerNorm(answers_norm_, Head(mappings).field_id),
                     sheetnames)
         \o ExplicitPass(t, key, Tail(mappings), answers_norm_, sheetnames)

\* mutant: a template always consumes its own source form as well
SourceFormFilesWithOwn(template) ==
  ({template.source_file}
     \cup {template.source_form_files[i] : i \in 1..Len(template.source_form_files)})
    \ {""}

\* template.get("source_form_files") or [source_file], without empty names
SourceFormFiles(template) ==
  IF template.source_form_files = <<>> THEN {template.source_file} \ {""}
  ELSE {template.source_form_files[i] : i \in 1..Len(template.source_form_files)}
         \ {""}

\* explicit_field_ids
ExplicitFieldIds(template) ==
  {template.mappings[i].field_id : i \in 1..Len(template.mappings)}

\* schema_lookup.get(field_id); a field with no id stands for None
NoField == [field_id |-> "", form_file |-> "", cell_range |-> <<>>, format |-> {}]

SchemaFieldAt(schema_lookup_, hits) ==
  IF hits = {} THEN NoField ELSE schema_lookup_[MaxOf(hits)]

SchemaField(schema_lookup_, field_id) ==
  SchemaFieldAt(schema_lookup_,
                {i \in 1..Len(schema_lookup_) : schema_lookup_[i].field_id = field_id})

\* mutant: pass 2 skips the empty answers only
AutoSkipsEmptyOnly(field_id, answer, explicit_field_ids) == answer = <<>>

\* line 201
AutoSkips(field_id, answer, explicit_field_ids) ==
  answer = <<>> \/ field_id \in explicit_field_ids

\* lines 219-243: after the value is computed
AutoWrites(t, key, field_id, cell_range, targets, sheetnames, value) ==
  IF value.exc # "none" THEN <<RaiseEvent(t, 2, field_id, key, value.exc)>>
  ELSE IF targets = <<>>
  THEN <<NoteEvent(t, 2, field_id, key, "warning",
                   <<"cell_range_failed">> \o cell_range)>>
  ELSE TargetEvents(t, 2, field_id, key, targets, sheetnames, value)

\* lines 204-243
AutoField(t, key, field_id, answer, field, source_form_files, sheetnames) ==
  IF field = NoField THEN <<>>
  ELSE IF field.form_file \notin source_form_files THEN <<>>
  ELSE IF Strip(field.cell_range) = <<>> THEN <<>>
  ELSE AutoWrites(t, key, field_id, Strip(field.cell_range),
                  parse_targets(Strip(field.cell_range), <<>>), sheetnames,
                  to_excel_value(answer, infer_value_type(field.format)))

\* mutant: the fields are auto-mapped in the first template only
AutoEntryOnce(t, template, item, schema_lookup_, sheetnames) ==
  IF t > 1 \/ AutoSkips(item.field_id, item.norm, ExplicitFieldIds(template))
  THEN <<>>
  ELSE AutoField(t, TemplateKey(template), item.field_id, item.norm,
                 SchemaField(schema_lookup_, item.field_id),
                 SourceFormFiles(template), sheetnames)

\* one iteration of pass 2 (lines 200-243)
AutoEntry(t, template, item, schema_lookup_, sheetnames) ==
  IF AutoSkips(item.field_id, item.norm, ExplicitFieldIds(template)) THEN <<>>
  ELSE AutoField(t, TemplateKey(template), item.field_id, item.norm,
                 SchemaField(schema_lookup_, item.field_id),
                 SourceFormFiles(template), sheetnames)

RECURSIVE AutoPass(_, _, _, _, _)
AutoPass(t, template, items, schema_lookup_, sheetnames) ==
  IF items = <<>> THEN <<>>
  ELSE AutoEntry(t, template, Head(items), schema_lookup_, sheetnames)
         \o AutoPass(t, template, Tail(items), schema_lookup_, sheetnames)

\* lines 154-243: both passes on the loaded workbook
FillEvents(t, template, answers_norm_, schema_lookup_, sheetnames) ==
  ExplicitPass(t, TemplateKey(template), template.mappings, answers_norm_,
               sheetnames)
    \o AutoPass(t, template, answers_norm_, schema_lookup_, sheetnames)

\* one iteration of the loop over the templates (lines 126-247), up to the
\* exception that ends it, if any
TemplateSteps(t, template, answers_norm_, schema_lookup_, dir, skip) ==
  IF skip # <<>> THEN skip
  ELSE FillEvents(t, template, answers_norm_, schema_lookup_,
                  dir[template.source_file])

TemplateEvents(t, template, answers_norm_, schema_lookup_, dir) ==
  TemplateSteps(t, template, answers_norm_, schema_lookup_, dir,
                SkipEvents(t, template, dir))

(***************************************************************************)
(* excel_writer.py: _fill_linear_range and _write_to_target.  A cell       *)
(* reference is a column letter and a row digit, a range two references  *)
(* around ":"; the worksheet is the sequence of the cells written.        *)
(***************************************************************************)
ColumnLetters == <<"A", "B", "C", "D", "E", "F">>

\* the column number of a column letter
ColumnIndex(letter) ==
  CHOOSE k \in 1..Len(ColumnLetters) : ColumnLetters[k] = letter

\* range_boundaries(cell_range) of the spreadsheet library
range_boundaries(cell_range) ==
  [min_col |-> ColumnIndex(cell_range[1]),
   min_row |-> DigitVal(cell_range[2]),
   max_col |-> ColumnIndex(cell_range[Len(cell_range) - 1]),
   max_row |-> DigitVal(cell_range[Len(cell_range)])]

\* ws.cell(row=row, column=col, value=value)
Cell(row, col, value) == [row |-> row, col |-> col, value |-> value]

\* line 79: str(value) of a value to_excel_value returned
StrOfValue(value) ==
  IF value.kind = "str" THEN value.str
  ELSE IF value.int < 0 THEN <<"-">> \o NatToStr(0 - value.int)
  ELSE NatToStr(value.int)

\* mutant: a text shorter than the range is repeated instead of padded
CellValueRepeat(chars, idx) ==
  IF chars = <<>> THEN XStr(<<>>) ELSE XStr(<<chars[(idx % Len(chars)) + 1]>>)

\* chars[idx] if idx < len(chars) else ""
CellValue(chars, idx) ==
  IF idx < Len(chars) THEN XStr(<<chars[idx + 1]>>) ELSE XStr(<<>>)

\* lines 84-87 (and the inner loop, lines 99-102): one row, left to right
FillRow(row, min_col, max_col, chars, idx) ==
  [k \in 1..(max_col - min_col + 1) |->
     Cell(row, min_col + k - 1, CellValue(chars, idx + k - 1))]

\* lines 91-94: one column, top to bottom
FillColumn(col, min_row, max_row, chars) ==
  [k \in 1..(max_row - min_row + 1) |->
     Cell(min_row + k - 1, col, CellValue(chars, k - 1))]

\* lines 98-102: the rows of a block, idx running on from row to row
RECURSIVE FillBlock(_, _, _, _, _, _)
FillBlock(row, max_row, min_col, max_col, chars, idx) ==
  IF row > max_row THEN <<>>
  ELSE FillRow(row, min_col, max_col, chars, idx)
         \o FillBlock(row + 1, max_row, min_col, max_col, chars,
                      idx + (max_col - min_col + 1))

fill_linear_range(b, value) ==
  IF b.min_col = b.max_col /\ b.min_row = b.max_row
  THEN <<Cell(b.min_row, b.min_col, value)>>
  ELSE IF b.min_row = b.max_row
  THEN FillRow(b.min_row, b.min_col, b.max_col, StrOfValue(value), 0)
  ELSE IF b.min_col = b.max_col
  THEN FillColumn(b.min_col, b.min_row, b.max_row, StrOfValue(value))
  ELSE FillBlock(b.min_row, b.max_row, b.min_col, b.max_col,
                 StrOfValue(value), 0)

\* ws[target] = value for a target without ":" is the write of one cell
write_to_target(target, value) ==
  IF \E k \in 1..Len(target) : target[k] = ":"
  THEN fill_linear_range(range_boundaries(target), value)
  ELSE <<Cell(DigitVal(target[2]), ColumnIndex(target[1]), value)>>

(***************************************************************************)
(* excel_writer.py: create_review_report.  The sheet is the sequence of    *)
(* its rows, a row the sequence of its five cells.                         *)
(***************************************************************************)
\* dict.get(key, default)
Get(d, key, default) == IF key \in DOMAIN d THEN d[key] ELSE default

ReportHeader == <<"kind", "severity", "field_id", "message", "template">>

IssueRow(issue) ==
  <<"validation", Get(issue, "severity", "warning"), Get(issue, "field_id", ""),
    Get(issue, "message", ""), "">>

NoteRow(note) ==
  <<"mapping", Get(note, "level", "warning"), Get(note, "field_id", ""),
    Get(note, "message", ""), Get(note, "template", "")>>

\* mutant: the rows of the notes come before the rows of the issues
review_rows_notes_first(validation_issues_, mapping_notes_) ==
  <<ReportHeader>>
    \o [i \in 1..Len(mapping_notes_) |-> NoteRow(mapping_notes_[i])]
    \o [i \in 1..Len(validation_issues_) |-> IssueRow(validation_issues_[i])]

\* the rows appended to the sheet, in the order of the ws.append calls
review_rows(validation_issues_, mapping_notes_) ==
  <<ReportHeader>>
    \o [i \in 1..Len(validation_issues_) |-> IssueRow(validation_issues_[i])]
    \o [i \in 1..Len(mapping_notes_) |-> NoteRow(mapping_notes_[i])]

(***************************************************************************)
(* scripts/extract_schema.py: build_fields.  A record is a row of the      *)
(* definition sheet; the texts of its Field_ID column are atoms, with and  *)
(* without surrounding blanks.                                             *)
(***************************************************************************)
\* str.strip() on the texts of the Field_ID column
StripText(text) ==
  CASE text = " F1" -> "F1" [] text = "F2 " -> "F2" [] text = " " -> ""
    [] OTHER -> text

\* normalize_required: the same words and the same containment test as
\* _required_flag
normalize_required(value) == IF required_flag(value) THEN "True" ELSE "False"

\* the dictionary appended for one record (the columns the service reads)
BuiltField(record) ==
  [field_id |-> StripText(record.Field_ID),
   required |-> normalize_required(record.Required),
   format |-> record.Format]

RECURSIVE build_fields(_)
build_fields(records_) ==
  IF records_ = <<>> THEN <<>>
  ELSE IF StripText(Head(records_).Field_ID) = "" THEN build_fields(Tail(records_))
  ELSE <<BuiltField(Head(records_))>> \o build_fields(Tail(records_))

(***************************************************************************)
(* app/main.py: export_case_endpoint, one process per request.  A path is  *)
(* the sequence of its components below EXPORT_DIR; fs_log is the set of   *)
(* the file operations done so far, each with the export that did it.      *)
(***************************************************************************)
\* the values uuid.uuid4() returns, and the archive name made from each
ExportIdPool == <<"id1", "id2", "id3", "id4">>

ZipNames ==
  <<"export_id1.zip", "export_id2.zip", "export_id3.zip", "export_id4.zip">>

\* f"export_{export_id}.zip"
ZipName(export_id) ==
  ZipNames[CHOOSE k \in 1..Len(ExportIdPool) : ExportIdPool[k] = export_id]

NoId == ""

\* mutant: the working directory is keyed by the case only
WorkDirOfCase(case_id, export_id) == <<case_id, "work">>

\* export_work_dir = EXPORT_DIR / case_id / export_id
WorkDir(case_id, export_id) == <<case_id, export_id>>

\* zip_path = EXPORT_DIR / case_id / f"export_{export_id}.zip"
ZipPath(case_id, export_id) == <<case_id, ZipName(export_id)>>

FileOp(by, op, path) == [by |-> by, op |-> op, path |-> path]

\* the templates of the mapping configuration: source and output file names
MappingTemplates ==
  <<[source_file |-> "a.xlsx", output_file |-> "filled_a.xlsx"],
    [source_file |-> "b.xlsx", output_file |-> "filled_b.xlsx"]>>

\* write_templates on the first k templates: each document is loaded from
\* template_dir and saved under output_dir
TemplateOps(by, output_dir, k) ==
  {FileOp(by, "load", <<"templates", MappingTemplates[i].source_file>>) :
     i \in 1..k}
  \cup {FileOp(by, "save", output_dir \o <<MappingTemplates[i].output_file>>) :
          i \in 1..k}

\* mutant: the catalog source is read on every call
LoadSchemaUncached(cache, source) == source # "ok"

\* load_schema under lru_cache: the source is read only when nothing is
\* cached, and an exception is not cached
LoadSchemaRaises(cache, source) == cache = "empty" /\ source # "ok"

\* load_mapping raises FileNotFoundError when the source does not exist
LoadMappingRaises(source) == source = "missing"

\* hashlib.sha256(zip_path.read_bytes()).hexdigest()
Checksum(zip_path) == [sha256_of |-> zip_path]

\* save_export: the row of the exports table
ExportRecord(export_id, case_id) ==
  [id |-> export_id, case_id |-> case_id,
   zip_path |-> ZipPath(case_id, export_id),
   checksum |-> Checksum(ZipPath(case_id, export_id))]

(***************************************************************************)
(* app/db.py: the case_answers table, a sequence of rows in the order of   *)
(* their insertion; (case_id, field_id) is its primary key.                *)
(***************************************************************************)
AnswerRow(case_id, entry) ==
  [case_id |-> case_id, field_id |-> entry.field_id,
   answer_raw |-> entry.raw, answer_norm |-> entry.norm]

\* mutant: the conflict target is field_id alone
UpsertRowAnyCase(table, case_id, entry) ==
  IF \E i \in 1..Len(table) : table[i].field_id = entry.field_id
  THEN [i \in 1..Len(table) |->
          IF table[i].field_id = entry.field_id
          THEN [table[i] EXCEPT !.answer_raw = entry.raw,
                                !.answer_norm = entry.norm]
          ELSE table[i]]
  ELSE Append(table, AnswerRow(case_id, entry))

\* INSERT ... ON CONFLICT(case_id, field_id) DO UPDATE SET answer_raw,
\* answer_norm (lines 198-209)
UpsertRow(table, case_id, entry) ==
  IF \E i \in 1..Len(table) :
       table[i].case_id = case_id /\ table[i].field_id = entry.field_id
  THEN [i \in 1..Len(table) |->
          IF table[i].case_id = case_id /\ table[i].field_id = entry.field_id
          THEN [table[i] EXCEPT !.answer_raw = entry.raw,
                                !.answer_norm = entry.norm]
          ELSE table[i]]
  ELSE Append(table, AnswerRow(case_id, entry))

\* upsert_answers: executemany over the rows of normalized_answers, one
\* transaction
RECURSIVE upsert_answers(_, _, _)
upsert_answers(table, case_id, normalized_) ==
  IF normalized_ = <<>> THEN table
  ELSE upsert_answers(UpsertRow(table, case_id, Head(normalized_)), case_id,
                      Tail(normalized_))

\* get_answers(case_id, normalized=False): {field_id: answer_raw or ""} of
\* the rows of the case
RECURSIVE get_answers(_, _)
get_answers(table, case_id) ==
  IF table = <<>> THEN <<>>
  ELSE (IF Head(table).case_id = case_id
        THEN <<[field_id |-> Head(table).field_id,
                raw_value |-> StrValue(Head(table).answer_raw)]>>
        ELSE <<>>)
         \o get_answers(Tail(table), case_id)

(***************************************************************************)
(* State.  The normalizer's variables hold one call chain                  *)
(*   normalize_value -> normalize_value again / to_excel_value             *)
(* on one input.                                                           *)
(***************************************************************************)
VARIABLES
  n_pc,         \* "raw", "normalized", "renormalized", "excel"
  raw_value,    \* the raw value given to normalize_value
  fmt,          \* the field's format tag
  norm,         \* result of normalize_value(raw_value, fmt)
  norm2,        \* result of normalize_value(norm, fmt)
  value_type,   \* the type tag given to to_excel_value
  excel_value,  \* result of to_excel_value(norm, value_type)
  \* normalize_answers -> validate_answers on one catalog and one answer set
  v_pc,         \* "idle", "answers", "normalized", "raised", "validated",
                \* "validate_raised"
  fields,       \* the catalog: a sequence of [field_id, required, format]
  answers,      \* the raw answers: a sequence of [field_id, raw_value]
  normalized,   \* the normalized answers: [field_id, raw, norm]
  issues,       \* the list validate_answers returned
  \* write_templates on one mapping configuration
  w_pc,         \* "idle", "loop", "returned", "raised"
  templates,    \* mapping_data["templates"]
  template_dir, \* the files of template_dir -> the sheet names of each
  answers_norm, \* the normalized answers: a sequence of [field_id, norm]
  schema_lookup,\* the catalog: [field_id, form_file, cell_range, format]
  t_idx,        \* position of the loop over the templates
  notes,        \* the mapping notes
  output_files, \* the saved output documents
  trace,        \* the instrumented steps taken so far
  \* _write_to_target on one target and one value
  fill_pc,      \* "idle", "target", "written"
  fill_target,  \* the cell reference or range
  fill_value,   \* the value to write
  fill_cells,   \* the cells written, in the order of the writes
  \* create_review_report on one list of issues and one list of notes
  report_pc,    \* "idle", "lists", "saved"
  validation_issues, \* the issues given to create_review_report
  mapping_notes,     \* the notes given to create_review_report
  report_rows,  \* the rows of the saved review sheet
  \* build_fields on one list of definition records
  build_pc,     \* "idle", "records", "built"
  records,      \* the rows of the definition sheet
  built_fields, \* the list build_fields returned
  \* export_case_endpoint, one process per request
  exp,          \* per request: pc, case_id, include_debug_json, export_id, error
  fs_log,       \* the file operations done, each with the export that did it
  db_cases,     \* the cases table: status, and whether answers were upserted
  db_exports,   \* the exports table
  schema_cache, \* the lru_cache of load_schema: "empty" or "loaded"
  schema_source,\* the catalog source: "ok", "missing", "no_fields"
  mapping_source, \* the mapping source: "ok", "missing"
  \* update_answers_endpoint and the first steps of export_case_endpoint on
  \* the stored answers
  put,          \* per PUT request: pc, case_id, answers, updated, issues, error
  exporting,    \* the export request: pc, case_id, raw_answers, error
  case_answers, \* the case_answers table
  last_put      \* per (case_id, field_id): the raw text the last PUT stored

nvars == <<n_pc, raw_value, fmt, norm, norm2, value_type, excel_value>>

vvars == <<v_pc, fields, answers, normalized, issues>>

wvars ==
  <<w_pc, templates, template_dir, answers_norm, schema_lookup, t_idx, notes,
    output_files, trace>>

fvars == <<fill_pc, fill_target, fill_value, fill_cells>>

rvars == <<report_pc, validation_issues, mapping_notes, report_rows>>

svars == <<build_pc, records, built_fields>>

avars == <<put, exporting, case_answers, last_put>>

\* the variables of the first three components, and those of the others
pvars == <<nvars, vvars, wvars>>

\* the variables of the later components but the export requests
xvars == <<fvars, rvars, svars, avars>>

evars ==
  <<exp, fs_log, db_cases, db_exports, schema_cache, schema_source,
    mapping_source>>

vars == <<pvars, xvars, evars>>

NormIdle ==
  /\ n_pc = "idle"
  /\ raw_value = NoneValue
  /\ fmt = {}
  /\ norm = Ok(<<>>)
  /\ norm2 = Ok(<<>>)
  /\ value_type = ""
  /\ excel_value = XStr(<<>>)

ValidatorIdle ==
  /\ v_pc = "idle"
  /\ fields = <<>>
  /\ answers = <<>>
  /\ normalized = <<>>
  /\ issues = <<>>

WriterIdle ==
  /\ w_pc = "idle"
  /\ templates = <<>>
  /\ template_dir = <<>>
  /\ answers_norm = <<>>
  /\ schema_lookup = <<>>
  /\ t_idx = 1
  /\ notes = <<>>
  /\ output_files = <<>>
  /\ trace = <<>>

FillIdle ==
  /\ fill_pc = "idle"
  /\ fill_target = <<>>
  /\ fill_value = XStr(<<>>)
  /\ fill_cells = <<>>

ReportIdle ==
  /\ report_pc = "idle"
  /\ validation_issues = <<>>
  /\ mapping_notes = <<>>
  /\ report_rows = <<>>

SchemaIdle ==
  /\ build_pc = "idle"
  /\ records = <<>>
  /\ built_fields = <<>>

PIdle == NormIdle /\ ValidatorIdle /\ WriterIdle

ExportIdle ==
  /\ exp = <<>>
  /\ fs_log = {}
  /\ db_cases = <<>>
  /\ db_exports = {}
  /\ schema_cache = "empty"
  /\ schema_source = "ok"
  /\ mapping_source = "ok"

\* no answer request and an empty table
AnswersIdle ==
  /\ put = <<>>
  /\ exporting = [pc |-> "idle", case_id |-> "", raw_answers |-> <<>>,
                  error |-> "none"]
  /\ case_answers = <<>>
  /\ last_put = <<>>

XIdle == FillIdle /\ ReportIdle /\ SchemaIdle /\ ExportIdle /\ AnswersIdle

(***************************************************************************)
(* Inputs of the normalizer.                                               *)
(***************************************************************************)
MaxRawLen == 2

\* 1 April of era year 6, and the same day in ISO form
Reiwa6April1 == <<"REI", "WA", "6", "NEN", "4", "GATSU", "1", "NICHI">>

Iso20240401 == <<"2", "0", "2", "4", "-", "0", "4", "-", "0", "1">>

RawAlphabet == {"1", "0", "-", ",", "YEN", " ", "x"}

RECURSIVE SeqsUpTo(_, _)
SeqsUpTo(S, n) ==
  IF n = 0 THEN {<<>>}
  ELSE LET shorter == SeqsUpTo(S, n - 1)
       IN  shorter \cup {<<c>> \o s : c \in S, s \in {x \in shorter : Len(x) = n - 1}}

ShortRaws == SeqsUpTo(RawAlphabet, MaxRawLen)

IsoYears == {<<"0", "0", "0", "0">>, <<"2", "0", "1", "8">>,
             <<"2", "0", "1", "9">>, <<"2", "0", "2", "3">>,
             <<"2", "0", "2", "4">>}

IsoMonths == {<<"4">>, <<"0", "4">>, <<"2">>, <<"1", "2">>, <<"1", "3">>,
              <<"0", "0">>}

IsoDays == {<<"1">>, <<"0", "1">>, <<"2", "9">>, <<"3", "0">>, <<"3", "1">>,
            <<"3", "2">>}

IsoRaws ==
  {y \o <<s1>> \o m \o <<s2>> \o d :
     y \in IsoYears, s1 \in {"-", "/"}, m \in IsoMonths, s2 \in {"-", "/"},
     d \in IsoDays}

ReiwaYears == {<<"0">>, <<"1">>, <<"6">>, <<"0", "6">>,
               <<"7", "9", "8", "1">>, <<"7", "9", "8", "2">>,
               <<"2", "1", "4", "7", "4", "8", "1", "6", "2", "9">>,
               <<"2", "1", "4", "7", "4", "8", "1", "6", "3", "0">>,
               <<"9", "9", "9", "9", "9", "9", "9", "9", "9", "9", "9">>}

WarekiRaws ==
  {<<"REI", "WA">> \o sp \o n \o sp \o <<"NEN">> \o m \o <<"GATSU">> \o sp
      \o d \o <<"NICHI">> \o tail :
     n \in ReiwaYears, m \in {<<"4">>, <<"2">>, <<"1", "3">>},
     d \in {<<"1">>, <<"3", "0">>, <<"3", "1">>}, sp \in {<<>>, <<" ">>},
     tail \in {<<>>, <<"x">>}}

OtherRaws ==
  { <<"1", ",", "2", "0", "0", ",", "0", "0", "0", "YEN">>,
    <<"-", "0", "0", "7">>, <<"+", "5">>, <<" ", "1", "2", " ">>,
    <<"1", "FWCOMMA", "0", "0", "0">>, <<"YENSIGN", "5", "0", "0">>,
    <<"1", ".", "5">>,
    <<"t", "r", "u", "e">>, <<"T", "R", "U", "E">>, <<"Y", "e", "s">>,
    <<"o", "n">>, <<"RE">>, <<"n", "o">>, <<"f", "a", "l", "s", "e">>,
    <<"FU", "MEI">>, <<"t", "o", "d", "o">>,
    <<"2", "0", "1", "8", "NEN", "5", "GATSU", "1", "NICHI">>,
    <<"x", "REI", "WA", "6", "NEN", "4", "GATSU", "1", "NICHI">>,
    <<"REI", "WA", "x", "REI", "WA", "6", "NEN", "4", "GATSU", "1", "NICHI">>,
    <<"R", "6", ".", "4", ".", "1">> }

RawValues ==
  {StrValue(s) : s \in ShortRaws \cup IsoRaws \cup WarekiRaws \cup OtherRaws}
    \cup {NoneValue, NumValue(<<"5">>), NumValue(<<"-", "3">>),
          NumValue(<<"1", ".", "5">>)}

\* format tags of the catalog, as sets of marker words
NormFmts ==
  { {}, {"yyyy"}, {"YYYY"}, {"HIDZUKE"}, {"WAREKI"}, {"KINGAKU"},
    {"Currency"}, {"SUUJI"}, {"number"}, {"checkbox"}, {"KAIGYOU"},
    {"WAREKI", "SUUJI"}, {"KINGAKU", "checkbox"}, {"SUUJI", "CHECKBOX"} }

ValueTypes ==
  {"", "text", "text_multiline", "number", "currency", "Currency", "checkbox",
   "date_wareki", "DATE_WAREKI", "date_iso", "other"}

NormInit ==
  /\ n_pc = "raw"
  /\ raw_value \in RawValues
  /\ fmt \in NormFmts
  /\ norm = Ok(<<>>)
  /\ norm2 = Ok(<<>>)
  /\ value_type = ""
  /\ excel_value = XStr(<<>>)
  /\ ValidatorIdle
  /\ WriterIdle
  /\ XIdle

\* normalize_value(raw_value, fmt)
Normalize ==
  /\ n_pc = "raw"
  /\ norm' = normalize_value(raw_value, fmt)
  /\ n_pc' = "normalized"
  /\ UNCHANGED <<raw_value, fmt, norm2, value_type, excel_value>>
  /\ UNCHANGED <<vvars, wvars, xvars, evars>>

\* normalize_value(normalize_value(raw_value, fmt), fmt): an exception of the
\* inner call is the exception of the whole expression
Renormalize ==
  /\ n_pc = "normalized"
  /\ norm2' = IF norm.exc = "none" THEN normalize_value(StrValue(norm.val), fmt)
              ELSE norm
  /\ n_pc' = "renormalized"
  /\ UNCHANGED <<raw_value, fmt, norm, value_type, excel_value>>
  /\ UNCHANGED <<vvars, wvars, xvars, evars>>

\* to_excel_value(norm, t) on the value normalize_value returned
Denormalize ==
  /\ n_pc = "normalized"
  /\ norm.exc = "none"
  /\ \E t \in ValueTypes :
       /\ value_type' = t
       /\ excel_value' = to_excel_value(norm.val, t)
  /\ n_pc' = "excel"
  /\ UNCHANGED <<raw_value, fmt, norm, norm2>>
  /\ UNCHANGED <<vvars, wvars, xvars, evars>>

NormNext == Normalize \/ Renormalize \/ Denormalize

SpecNorm == NormInit /\ [][NormNext]_vars

(***************************************************************************)
(* Inputs of the validator: a catalog of at most MaxFields fields with     *)
(* distinct ids (the catalog's invariant, which tests/test_mapping_        *)
(* coverage.py asserts of schema.json) and the raw answers of a case.      *)
(***************************************************************************)
MaxFields == 2

Absent == [kind |-> "absent", text |-> <<>>]

Field(id, required, format) ==
  [field_id |-> id, required |-> required, format |-> format]

MainKinds ==
  { <<"True", {}>>, <<"True", {"SUUJI"}>>, <<"True", {"Number"}>>,
    <<"True", {"DENWA"}>>, <<"True", {"YUUBIN"}>>, <<"True", {"yyyy"}>>,
    <<"True", {"WAREKI"}>>, <<"True", {"checkbox"}>>, <<"True", {"KINGAKU"}>>,
    <<"True", {"SUUJI", "DENWA"}>>, <<"HISSU_NOTE", {}>>, <<"Yes", {"0XX"}>>,
    <<"False", {}>>, <<"False", {"SUUJI"}>>, <<"NINI", {"yyyy"}>>,
    <<"False", {"POSTMARK"}>> }

MainRaws ==
  { Absent, NoneValue, NumValue(<<"5">>) } \cup
  { StrValue(s) : s \in
      { <<>>, <<" ", " ">>, <<"FU", "MEI">>, <<"YOU", "KAKU", "NIN">>,
        <<"TAI", "SHOU", "GAI">>, <<"u", "n", "k", "n", "o", "w", "n">>,
        <<"t", "o", "d", "o">>, <<"T", "O", "D", "O">>, <<"1", "2">>, <<"x">>,
        Iso20240401, <<"2", "0", "2", "4", "-", "0", "4", "-", "3", "1">>,
        Reiwa6April1, <<"REI", "WA", "6", "NEN">>,
        <<"0", "1", "9", "-", "1", "2", "3", "4", "-", "5", "6", "7", "8">>,
        <<"1", "2", "3", "-", "4", "5", "6", "7">>, <<"1", ",", "2", "0", "0">>,
        <<"YEN">> } }

CountKinds == { <<"True", {"SUUJI"}>>, <<"False", {}>>, <<"False", {"DENWA"}>> }

CountRaws ==
  { Absent, StrValue(<<"3">>), StrValue(<<"2">>), StrValue(<<"5">>),
    StrValue(<<"SUP2">>) }

\* an answer stored under a vehicle-tagged id the catalog does not declare,
\* ahead of the others
EarlierRaws == { Absent, StrValue(<<"SUP2">>) }

FieldIds == {"F1", "VEHICLE_COUNT", "driver_count", ""}

\* a catalog field together with the raw answer stored for it
Varieties(id) ==
  IF id = "F1"
  THEN {[field |-> Field(id, k[1], k[2]), ans |-> r] : k \in MainKinds, r \in MainRaws}
  ELSE IF id = ""
  THEN {[field |-> Field(id, "True", {}), ans |-> Absent]}
  ELSE {[field |-> Field(id, k[1], k[2]), ans |-> r] : k \in CountKinds, r \in CountRaws}

\* answers stored under an id the catalog does not declare
ExtraRaws(id) ==
  IF id \in {"VEHICLE_COUNT", "driver_count"} THEN {Absent, StrValue(<<"3">>)}
  ELSE {Absent}

RECURSIVE DistinctSeqs(_, _)
DistinctSeqs(S, n) ==
  IF n = 0 THEN {<<>>}
  ELSE LET shorter == DistinctSeqs(S, n - 1)
           longer == {s \o <<x>> : s \in {y \in shorter : Len(y) = n - 1}, x \in S}
       IN  shorter \cup
             {q \in longer : \A i, j \in 1..Len(q) : i # j => q[i] # q[j]}

RECURSIVE Catalogs(_)
Catalogs(order) ==
  IF order = <<>> THEN {<<>>}
  ELSE {<<v>> \o rest : v \in Varieties(Head(order)), rest \in Catalogs(Tail(order))}

ValidatorInit ==
  /\ NormIdle
  /\ WriterIdle
  /\ XIdle
  /\ v_pc = "answers"
  /\ normalized = <<>>
  /\ issues = <<>>
  /\ \E order \in {o \in DistinctSeqs(FieldIds, MaxFields) : o # <<>>} :
       \E cat \in Catalogs(order) :
         \E extra \in [FieldIds \ {order[i] : i \in 1..Len(order)} ->
                         {Absent, StrValue(<<"3">>)}],
            earlier \in {IF r = Absent THEN <<>>
                         ELSE <<[field_id |-> "car_count", raw_value |-> r]>> :
                           r \in EarlierRaws} :
           /\ \A id \in DOMAIN extra : extra[id] \in ExtraRaws(id)
           /\ fields = [i \in 1..Len(cat) |-> cat[i].field]
           /\ answers =
                earlier \o
                SelectSeq([i \in 1..Len(cat) |->
                             [field_id |-> cat[i].field.field_id,
                              raw_value |-> cat[i].ans]],
                          LAMBDA a : a.raw_value # Absent)
                \o SelectSeq([i \in 1..3 |->
                               LET id == <<"F1", "VEHICLE_COUNT", "driver_count">>[i]
                               IN  [field_id |-> id,
                                    raw_value |-> IF id \in DOMAIN extra
                                                  THEN extra[id] ELSE Absent]],
                             LAMBDA a : a.raw_value # Absent)

\* normalize_answers(answers, get_field_lookup())
NormalizeAnswersReturns(r) ==
  /\ v_pc = "answers"
  /\ normalized' = r.val
  /\ v_pc' = IF r.exc = "none" THEN "normalized" ELSE "raised"
  /\ UNCHANGED <<fields, answers, issues>>
  /\ UNCHANGED <<nvars, wvars, xvars, evars>>

NormalizeAnswers ==
  NormalizeAnswersReturns(normalize_answers(answers, get_field_lookup(fields)))

\* validate_answers(fields, normalized)
ValidateAnswersReturns(r) ==
  /\ v_pc = "normalized"
  /\ issues' = r.val
  /\ v_pc' = IF r.exc = "none" THEN "validated" ELSE "validate_raised"
  /\ UNCHANGED <<fields, answers, normalized>>
  /\ UNCHANGED <<nvars, wvars, xvars, evars>>

ValidateAnswers == ValidateAnswersReturns(validate_answers(fields, normalized))

ValidatorNext == NormalizeAnswers \/ ValidateAnswers

SpecValidate == ValidatorInit /\ [][ValidatorNext]_vars

(***************************************************************************)
(* Inputs of write_templates: a mapping configuration of at most           *)
(* MaxTemplates templates, the template directory, the normalized answers  *)
(* and the catalog.  Every cell reference of the inputs is a well-formed   *)
(* one ("A1", "B2"), and to_excel_value returns on every answer.           *)
(***************************************************************************)
MaxTemplates == 2

Conf(field_id, sheet, cell, type) ==
  [field_id |-> field_id, sheet |-> sheet, cell |-> cell, type |-> type]

Template(source_file, output_file, template_key, mappings, source_form_files) ==
  [source_file |-> source_file, output_file |-> output_file,
   template_key |-> template_key, mappings |-> mappings,
   source_form_files |-> source_form_files]

\* templates whose source is missing or a legacy .xls file
SkippedTemplates ==
  { Template(f, "", NoKey, <<Conf("F1", <<"S1">>, <<"A1">>, "text")>>, <<>>) :
      f \in {"gone.xlsx", "old.xls", "OLD.XLS", "gone.xls"} }

\* templates without explicit mappings
AutoTemplates ==
  { Template("form1.xlsx", "", NoKey, <<>>, <<>>),
    Template("form1.xlsx", "out.xlsx", "T1", <<>>, <<"other.xlsx">>),
    Template("form2.xlsx", "", NoKey, <<>>, <<"form1.xlsx", "">>) }

\* the explicit mappings of the other templates
MappingChoices ==
  { <<Conf("F1", <<"S1">>, <<"A1">>, "text")>>,
    <<Conf("F1", <<"S1">>, <<"A1", ";", "B2">>, "text")>>,
    <<Conf("F1", <<>>, <<"A1">>, "text")>>,
    <<Conf("F1", <<"S9">>, <<"A1">>, "text")>>,
    <<Conf("F1", <<>>, <<"S9", "!", "A1", ";", "S1", "!", "B2">>, "number")>>,
    <<Conf("F2", <<"S1">>, <<"B2">>, "number"),
      Conf("F1", <<" ">>, <<"S2", " ", "!", "A1", "NL", "S1", "!", "B2", " ">>,
           "text")>>,
    <<Conf("F3", <<"S1">>, <<"A1">>, "")>>,
    <<Conf("F1", <<"S1">>, <<"S2", "!", "A1", ";", "B2">>, "text")>> }

ExplicitTemplates ==
  { Template("form1.xlsx", "", NoKey, m, <<>>) : m \in MappingChoices }

TemplateChoices == SkippedTemplates \cup AutoTemplates \cup ExplicitTemplates

\* the files of the template directory and the sheets of their workbooks
TemplateFiles == {"form1.xlsx", "form2.xlsx", "old.xls", "OLD.XLS"}

TemplateDirs ==
  { [f \in TemplateFiles |->
       IF f = "form1.xlsx" THEN sheets ELSE {<<"S1">>}] :
      sheets \in { {<<"S1">>, <<"S2">>}, {<<"S1">>} } }

AnswerNormChoices ==
  { << [field_id |-> "F1", norm |-> <<"x">>],
       [field_id |-> "F2", norm |-> <<"1", "2">>],
       [field_id |-> "F3", norm |-> <<>>] >>,
    << [field_id |-> "F2", norm |-> <<"1", "2">>],
       [field_id |-> "F1", norm |-> <<>>],
       [field_id |-> "F3", norm |-> <<"x">>] >>,
    << [field_id |-> "F1", norm |-> Iso20240401] >> }

CatalogField(field_id, form_file, cell_range, format) ==
  [field_id |-> field_id, form_file |-> form_file, cell_range |-> cell_range,
   format |-> format]

SchemaChoices ==
  { << CatalogField("F1", "form1.xlsx", <<"S1", "!", "A1">>, {}),
       CatalogField("F2", "form1.xlsx",
                    <<"S9", "!", "B2", ";", "S2", "!", "B2">>, {"SUUJI"}),
       CatalogField("F3", "form1.xlsx", <<"S1", "!", "B2">>, {}) >>,
    << CatalogField("F1", "form1.xlsx", <<"A1">>, {"WAREKI"}),
       CatalogField("F2", "other.xlsx", <<"S1", "!", "B2">>, {}) >>,
    << CatalogField("F1", "form1.xlsx", <<"S1", "!", "A1", ";", "B2">>, {}),
       CatalogField("F2", "form1.xlsx", <<" ">>, {}),
       CatalogField("F3", "form2.xlsx",
                    <<"S1", "!", "A1", "NL", "S2", "!", "B2">>, {"yyyy"}) >> }

WriterInit ==
  /\ NormIdle
  /\ ValidatorIdle
  /\ XIdle
  /\ w_pc = "loop"
  /\ templates \in SeqsUpTo(TemplateChoices, MaxTemplates)
  /\ template_dir \in TemplateDirs
  /\ answers_norm \in AnswerNormChoices
  /\ schema_lookup \in SchemaChoices
  /\ t_idx = 1
  /\ notes = <<>>
  /\ output_files = <<>>
  /\ trace = <<>>

\* one iteration of the loop over the templates: the notes and writes of
\* the template, then workbook.save and output_files.append unless the
\* template was skipped
WriteTemplateSteps(template, skipped, events) ==
  /\ trace' = trace \o UntilRaise(events)
  /\ notes' = notes \o NotesOf(UntilRaise(events))
  /\ output_files' = IF skipped \/ Raises(events) THEN output_files
                     ELSE Append(output_files, OutputFile(template))
  /\ w_pc' = IF Raises(events) THEN "raised" ELSE "loop"
  /\ t_idx' = t_idx + 1
  /\ UNCHANGED <<templates, template_dir, answers_norm, schema_lookup>>
  /\ UNCHANGED <<nvars, vvars, xvars, evars>>

WriteTemplate ==
  /\ w_pc = "loop"
  /\ t_idx <= Len(templates)
  /\ WriteTemplateSteps(
       templates[t_idx],
       SkipEvents(t_idx, templates[t_idx], template_dir) # <<>>,
       TemplateEvents(t_idx, templates[t_idx], answers_norm, schema_lookup,
                      template_dir))

\* return WriteResult(output_files, notes)
WriteReturn ==
  /\ w_pc = "loop"
  /\ t_idx > Len(templates)
  /\ w_pc' = "returned"
  /\ UNCHANGED <<templates, template_dir, answers_norm, schema_lookup, t_idx,
                 notes, output_files, trace>>
  /\ UNCHANGED <<nvars, vvars, xvars, evars>>

WriterNext == WriteTemplate \/ WriteReturn

SpecWrite == WriterInit /\ [][WriterNext]_vars

(***************************************************************************)
(* Inputs of _write_to_target: a single cell, or a range inside the        *)
(* MaxSide x MaxSide corner of the sheet, and a value to_excel_value can   *)
(* return.                                                                 *)
(***************************************************************************)
MaxSide == 4

CellRefs ==
  {<<ColumnLetters[c], DigitChar(r)>> : c \in 1..MaxSide, r \in 1..MaxSide}

RangeRefs ==
  {a \o <<":">> \o b : a \in CellRefs, b \in CellRefs}

\* the ranges whose second corner is not left of or above the first
FillTargets ==
  CellRefs \cup
  {t \in RangeRefs :
     /\ range_boundaries(t).min_col <= range_boundaries(t).max_col
     /\ range_boundaries(t).min_row <= range_boundaries(t).max_row}

FillValues ==
  {XStr(<<>>), XStr(<<"A">>), XStr(<<"A", "B", "C">>),
   XStr(<<"A", "B", "C", "D", "E">>), XStr(<<"REI", "WA", "6", "NEN">>),
   XInt(1200), XInt(0 - 5)}

FillInit ==
  /\ fill_pc = "target"
  /\ fill_target \in FillTargets
  /\ fill_value \in FillValues
  /\ fill_cells = <<>>
  /\ PIdle
  /\ ReportIdle
  /\ SchemaIdle
  /\ ExportIdle
  /\ AnswersIdle

\* _write_to_target(ws, target, value) on an empty record of writes
WriteToTarget ==
  /\ fill_pc = "target"
  /\ fill_cells' = write_to_target(fill_target, fill_value)
  /\ fill_pc' = "written"
  /\ UNCHANGED <<fill_target, fill_value>>
  /\ UNCHANGED <<pvars, rvars, svars, avars, evars>>

FillNext == WriteToTarget

SpecFill == FillInit /\ [][FillNext]_vars

(***************************************************************************)
(* Inputs of create_review_report: up to MaxRows issues and MaxRows notes, *)
(* as validate_answers and write_templates make them, and dictionaries     *)
(* that lack a key.                                                        *)
(***************************************************************************)
MaxRows == 2

IssueChoices ==
  {Issue("F1", "error", "required_missing"),
   Issue("_cross_check", "warning", "cross_check"),
   [field_id |-> "F2", message |-> "number_format"]}

NoteChoices ==
  {[field_id |-> "*", template |-> "k1", level |-> "error",
    message |-> "template_missing"],
   [field_id |-> "F1", template |-> "k2", level |-> "warning",
    message |-> "sheet_missing"],
   [field_id |-> "F2", message |-> "bad_cell"]}

ReportInit ==
  /\ report_pc = "lists"
  /\ validation_issues \in SeqsUpTo(IssueChoices, MaxRows)
  /\ mapping_notes \in SeqsUpTo(NoteChoices, MaxRows)
  /\ report_rows = <<>>
  /\ PIdle
  /\ FillIdle
  /\ SchemaIdle
  /\ ExportIdle
  /\ AnswersIdle

\* create_review_report(out_path, validation_issues, mapping_notes)
CreateReviewReport ==
  /\ report_pc = "lists"
  /\ report_rows' = review_rows(validation_issues, mapping_notes)
  /\ report_pc' = "saved"
  /\ UNCHANGED <<validation_issues, mapping_notes>>
  /\ UNCHANGED <<pvars, fvars, svars, avars, evars>>

ReportNext == CreateReviewReport

SpecReport == ReportInit /\ [][ReportNext]_vars

(***************************************************************************)
(* Inputs of build_fields: up to MaxRecords rows of the definition sheet.  *)
(***************************************************************************)
MaxRecords == 2

RecordChoices ==
  {[Field_ID |-> id, Required |-> r, Format |-> {}] :
     id \in {"F1", " F1", "F2", "F2 ", "", " "}, r \in {"HISSU", "NINI"}}

SchemaInit ==
  /\ build_pc = "records"
  /\ records \in SeqsUpTo(RecordChoices, MaxRecords)
  /\ built_fields = <<>>
  /\ PIdle
  /\ FillIdle
  /\ ReportIdle
  /\ ExportIdle
  /\ AnswersIdle

\* fields = build_fields(records)
BuildFields ==
  /\ build_pc = "records"
  /\ built_fields' = build_fields(records)
  /\ build_pc' = "built"
  /\ UNCHANGED records
  /\ UNCHANGED <<pvars, fvars, rvars, avars, evars>>

SchemaNext == BuildFields

SpecSchema == SchemaInit /\ [][SchemaNext]_vars



(***************************************************************************)
(* Export requests.  MaxExports requests run concurrently, each for one of *)
(* the stored cases or for an unknown case, with or without the debug     *)
(* file; a step that fails leaves the file it was writing behind.          *)
(***************************************************************************)
MaxExports == 2

Exports == 1..MaxExports

CaseIds == {"c1", "c2"}

UnknownCase == "c0"

\* as many identifiers as requests: every request can get a fresh one
ExportIds == {ExportIdPool[k] : k \in 1..MaxExports}

Request(case_id, include_debug_json) ==
  [pc |-> "requested", case_id |-> case_id,
   include_debug_json |-> include_debug_json, export_id |-> NoId,
   error |-> "none"]

ExportInit ==
  /\ exp \in [Exports -> {Request(c, d) : c \in CaseIds \cup {UnknownCase},
                                          d \in BOOLEAN}]
  /\ exp[1].case_id # "c2"   \* the names of the two cases are interchangeable
  /\ fs_log = {}
  /\ db_cases = [c \in CaseIds |-> [status |-> "draft", answers_saved |-> FALSE]]
  /\ db_exports = {}
  /\ schema_cache = "empty"
  /\ schema_source \in {"ok", "missing", "no_fields"}
  /\ mapping_source \in {"ok", "missing"}
  /\ schema_source = "ok" \/ mapping_source = "ok"
  /\ PIdle
  /\ FillIdle
  /\ ReportIdle
  /\ SchemaIdle
  /\ AnswersIdle

\* the request ends with an exception
Failed(p, error) == [exp EXCEPT ![p].pc = "failed", ![p].error = error]

At(p, pc) == [exp EXCEPT ![p].pc = pc]

\* upsert_answers(case_id, normalized)
AnswersSaved(case_id) == [db_cases EXCEPT ![case_id].answers_saved = TRUE]

\* lines 162-176: get_case, get_fields / get_field_lookup, get_answers,
\* normalize_answers, upsert_answers, validate_answers; normalize_answers and
\* validate_answers raise on some answers (raises)
PrepareWith(p, raises) ==
  /\ exp[p].pc = "requested"
  /\ UNCHANGED <<fs_log, db_exports, schema_source, mapping_source>>
  /\ IF exp[p].case_id \notin CaseIds
     THEN /\ exp' = Failed(p, "case_not_found")
          /\ UNCHANGED <<db_cases, schema_cache>>
     ELSE IF LoadSchemaRaises(schema_cache, schema_source)
     THEN /\ exp' = Failed(p, "schema")
          /\ UNCHANGED <<db_cases, schema_cache>>
     ELSE /\ schema_cache' = "loaded"
          /\ exp' = IF raises = "none" THEN At(p, "prepared") ELSE Failed(p, raises)
          /\ db_cases' = IF raises = "normalize" THEN db_cases
                         ELSE AnswersSaved(exp[p].case_id)
  /\ UNCHANGED <<pvars, xvars>>

Prepare(p) == \E raises \in {"none", "normalize", "validate"} : PrepareWith(p, raises)

\* lines 177-179: a fresh export id and its working directory
Allocate(p) ==
  /\ exp[p].pc = "prepared"
  /\ \E id \in ExportIds \ {exp[q].export_id : q \in Exports} :
       /\ exp' = [exp EXCEPT ![p].pc = "allocated", ![p].export_id = id]
       /\ fs_log' = fs_log \cup {FileOp(p, "mkdir", WorkDir(exp[p].case_id, id))}
  /\ UNCHANGED <<db_cases, db_exports, schema_cache, schema_source, mapping_source>>
  /\ UNCHANGED <<pvars, xvars>>

\* lines 181-187: write_templates; load_mapping raises when the mapping
\* source is missing, and the loop may end with an exception after k documents
WriteTemplates(p) ==
  /\ exp[p].pc = "allocated"
  /\ IF LoadMappingRaises(mapping_source)
     THEN /\ exp' = Failed(p, "mapping")
          /\ UNCHANGED fs_log
     ELSE \E k \in 0..Len(MappingTemplates) :
            /\ exp' = IF k = Len(MappingTemplates) THEN At(p, "templates")
                      ELSE Failed(p, "templates")
            /\ fs_log' = fs_log \cup
                 TemplateOps(p, WorkDir(exp[p].case_id, exp[p].export_id), k)
  /\ UNCHANGED <<db_cases, db_exports, schema_cache, schema_source, mapping_source>>
  /\ UNCHANGED <<pvars, xvars>>

\* one step that writes one file and goes on, or fails
WritesFile(p, op, path, pc, error) ==
  /\ fs_log' = fs_log \cup {FileOp(p, op, path)}
  /\ \/ exp' = At(p, pc)
     \/ exp' = Failed(p, error)
  /\ UNCHANGED <<db_cases, db_exports, schema_cache, schema_source, mapping_source>>
  /\ UNCHANGED <<pvars, xvars>>

\* lines 189-193: create_review_report
Report(p) ==
  /\ exp[p].pc = "templates"
  /\ WritesFile(p, "report",
                WorkDir(exp[p].case_id, exp[p].export_id) \o <<"review_report.xlsx">>,
                IF exp[p].include_debug_json THEN "reported" ELSE "ready",
                "report")

\* lines 195-209: the debug file, when the request asks for it
Debug(p) ==
  /\ exp[p].pc = "reported"
  /\ WritesFile(p, "debug",
                WorkDir(exp[p].case_id, exp[p].export_id) \o <<"debug_answers.json">>,
                "ready", "debug")

\* lines 211-226: the archive
Zip(p) ==
  /\ exp[p].pc = "ready"
  /\ WritesFile(p, "zip", ZipPath(exp[p].case_id, exp[p].export_id),
                "zipped", "archive")

\* lines 228-229: the checksum and save_export, one transaction; it is
\* rolled back when it fails
Save(p) ==
  /\ exp[p].pc = "zipped"
  /\ \/ /\ exp' = At(p, "done")
        /\ db_exports' = db_exports
             \cup {ExportRecord(exp[p].export_id, exp[p].case_id)}
        /\ db_cases' = [db_cases EXCEPT ![exp[p].case_id].status = "exported"]
     \/ /\ exp' = Failed(p, "record")
        /\ UNCHANGED <<db_cases, db_exports>>
  /\ UNCHANGED <<fs_log, schema_cache, schema_source, mapping_source>>
  /\ UNCHANGED <<pvars, xvars>>

\* the catalog source is removed while the service runs
RemoveSchemaSource ==
  /\ schema_source = "ok"
  /\ schema_source' = "missing"
  /\ UNCHANGED <<exp, fs_log, db_cases, db_exports, schema_cache, mapping_source>>
  /\ UNCHANGED <<pvars, xvars>>

ExportNext ==
  \/ \E p \in Exports :
       Prepare(p) \/ Allocate(p) \/ WriteTemplates(p) \/ Report(p) \/ Debug(p)
         \/ Zip(p) \/ Save(p)
  \/ RemoveSchemaSource

SpecExport == ExportInit /\ [][ExportNext]_vars



(***************************************************************************)
(* Answer updates and exports on the stored answers.  MaxPuts PUT requests *)
(* and one export request run concurrently on the two stored cases or an   *)
(* unknown one; every call of app/db.py is one transaction.  The catalog   *)
(* is loaded, and the export request is followed up to its write-back of   *)
(* the normalized answers (main.py:160-172).                               *)
(***************************************************************************)
MaxPuts == 2

Puts == 1..MaxPuts

\* the catalog: a required number and an optional date
AnswerCatalog ==
  << Field("F1", "True", {"SUUJI"}), Field("F2", "False", {"yyyy"}) >>

AnswerFieldIds == {"F1", "F2"}

Answer(field_id, value) == [field_id |-> field_id, raw_value |-> value]

\* payload.answers of a PUT request
PayloadChoices ==
  { <<>>,
    <<Answer("F1", StrValue(<<"1">>))>>,
    <<Answer("F1", StrValue(<<" ", "2">>))>>,
    <<Answer("F2", StrValue(<<"2", "0", "2", "4", "/", "4", "/", "1">>))>>,
    <<Answer("F2", NoneValue), Answer("F1", StrValue(<<"1", ",", "2", "0", "0">>))>>,
    <<Answer("F1", StrValue(<<"1">>)),
      Answer("F2", StrValue(<<"2", "0", "2", "4", "-", "0", "4", "-", "3", "1">>))>> }

PutRequest(case_id, answers_) ==
  [pc |-> "requested", case_id |-> case_id, answers |-> answers_,
   updated |-> 0, issues |-> <<>>, error |-> "none"]

ExportOfAnswers(case_id) ==
  [pc |-> "requested", case_id |-> case_id, raw_answers |-> <<>>,
   error |-> "none"]

NeverPut == [stored |-> FALSE, raw |-> <<>>]

AnswersInit ==
  /\ put \in [Puts -> {PutRequest(c, a) : c \in CaseIds \cup {UnknownCase},
                                          a \in PayloadChoices}]
  /\ put[1].case_id # "c2"   \* the names of the two cases are interchangeable
  /\ exporting \in {ExportOfAnswers(c) : c \in CaseIds \cup {UnknownCase}}
  /\ case_answers = <<>>
  /\ last_put = [k \in CaseIds \X AnswerFieldIds |-> NeverPut]
  /\ PIdle
  /\ FillIdle
  /\ ReportIdle
  /\ SchemaIdle
  /\ ExportIdle

PutFailed(p, error) == [put EXCEPT ![p].pc = "failed", ![p].error = error]

\* the raw text a PUT stored for a field: that of its entry in normalized
StoredBy(normalized_, field_id) ==
  [stored |-> TRUE, raw |-> AnswerObj(normalized_, field_id).raw]

\* main.py:129-135: get_case, normalize_answers on the payload, and
\* upsert_answers; normalized is the result of normalize_answers
PutStoreWith(p, normalized_) ==
  /\ put[p].pc = "requested"
  /\ IF put[p].case_id \notin CaseIds
     THEN /\ put' = PutFailed(p, "case_not_found")
          /\ UNCHANGED <<case_answers, last_put>>
     ELSE IF normalized_.exc # "none"
     THEN /\ put' = PutFailed(p, normalized_.exc)
          /\ UNCHANGED <<case_answers, last_put>>
     ELSE /\ case_answers' =
               upsert_answers(case_answers, put[p].case_id, normalized_.val)
          /\ last_put' =
               [k \in DOMAIN last_put |->
                  IF /\ k[1] = put[p].case_id
                     /\ \E i \in 1..Len(normalized_.val) :
                          normalized_.val[i].field_id = k[2]
                  THEN StoredBy(normalized_.val, k[2]) ELSE last_put[k]]
          /\ put' = [put EXCEPT ![p].pc = "stored",
                                ![p].updated = Len(normalized_.val)]
  /\ UNCHANGED exporting
  /\ UNCHANGED <<pvars, fvars, rvars, svars, evars>>

PutStore(p) ==
  PutStoreWith(p, normalize_answers(put[p].answers,
                                    get_field_lookup(AnswerCatalog)))

\* the response of the request, or the exception that ended it
PutReturns(p, result) ==
  /\ put' = IF result.exc # "none" THEN PutFailed(p, result.exc)
            ELSE [put EXCEPT ![p].pc = "done", ![p].issues = result.val]
  /\ UNCHANGED <<exporting, case_answers, last_put>>
  /\ UNCHANGED <<pvars, fvars, rvars, svars, evars>>

\* validate_answers on the merged answers, when they normalize
ValidateMerged(merged_obj) ==
  IF merged_obj.exc # "none" THEN merged_obj
  ELSE validate_answers(AnswerCatalog, merged_obj.val)

\* main.py:137-142: get_fields, get_answers, normalize_answers and
\* validate_answers on the stored answers of the case
PutValidate(p) ==
  /\ put[p].pc = "stored"
  /\ PutReturns(p, ValidateMerged(
                     normalize_answers(get_answers(case_answers, put[p].case_id),
                                       get_field_lookup(AnswerCatalog))))

\* main.py:162-168: get_case and get_answers of the export request
ReadAnswers ==
  /\ exporting.pc = "requested"
  /\ exporting' =
       IF exporting.case_id \notin CaseIds
       THEN [exporting EXCEPT !.pc = "failed", !.error = "case_not_found"]
       ELSE [exporting EXCEPT !.pc = "read",
                              !.raw_answers =
                                get_answers(case_answers, exporting.case_id)]
  /\ UNCHANGED <<put, case_answers, last_put>>
  /\ UNCHANGED <<pvars, fvars, rvars, svars, evars>>

\* main.py:169-172: normalize_answers on the answers read, and
\* upsert_answers
WriteBackWith(normalized_) ==
  /\ exporting.pc = "read"
  /\ IF normalized_.exc # "none"
     THEN /\ exporting' = [exporting EXCEPT !.pc = "failed",
                                            !.error = normalized_.exc]
          /\ UNCHANGED case_answers
     ELSE /\ exporting' = [exporting EXCEPT !.pc = "written"]
          /\ case_answers' =
               upsert_answers(case_answers, exporting.case_id, normalized_.val)
  /\ UNCHANGED <<put, last_put>>
  /\ UNCHANGED <<pvars, fvars, rvars, svars, evars>>

WriteBack ==
  WriteBackWith(normalize_answers(exporting.raw_answers,
                                  get_field_lookup(AnswerCatalog)))

AnswersNext ==
  \/ \E p \in Puts : PutStore(p) \/ PutValidate(p)
  \/ ReadAnswers
  \/ WriteBack

SpecAnswers == AnswersInit /\ [][AnswersNext]_vars

(***************************************************************************)
(* Claims about the stored answers (SpecAnswers).                          *)
(***************************************************************************)
\* the stored row of a field of a case
RowsOf(c, f) ==
  {i \in 1..Len(case_answers) :
     case_answers[i].case_id = c /\ case_answers[i].field_id = f}

\* every stored row holds the raw text of the last PUT that stored the field
RawIsLastPut ==
  \A i \in 1..Len(case_answers) :
    /\ last_put[<<case_answers[i].case_id, case_answers[i].field_id>>].stored
    /\ case_answers[i].answer_raw
         = last_put[<<case_answers[i].case_id, case_answers[i].field_id>>].raw

\* C23: after any interleaving of PUT requests and export requests on the
\* same case, the stored raw answer of every field equals the value written
\* by the last completed PUT that contained the field; the write-back of an
\* export never replaces it with an older value.
C23_RawIsLastPut ==
  /\ RawIsLastPut
  /\ \A k \in DOMAIN last_put : last_put[k].stored => RowsOf(k[1], k[2]) # {}

\* the raw text the export read for a field
ExportRead(f) ==
  {exporting.raw_answers[i].raw_value.text :
     i \in {j \in 1..Len(exporting.raw_answers) :
              exporting.raw_answers[j].field_id = f}}

\* what the code keeps instead: a stored raw text is that of the last PUT of
\* the field, or the one an export read before that PUT and wrote back after
\* it
C23_LastPutOrExportSnapshot ==
  \A i \in 1..Len(case_answers) :
    /\ last_put[<<case_answers[i].case_id, case_answers[i].field_id>>].stored
    /\ \/ case_answers[i].answer_raw
            = last_put[<<case_answers[i].case_id, case_answers[i].field_id>>].raw
       \/ /\ exporting.pc = "written"
          /\ exporting.case_id = case_answers[i].case_id
          /\ case_answers[i].answer_raw \in ExportRead(case_answers[i].field_id)

(***************************************************************************)
(* Claims about the normalizer (checked under SpecNorm).                   *)
(***************************************************************************)
\* the text normalize_value works on: str(raw_value), stripped for a str
RawText == IF raw_value.kind = "num" THEN raw_value.text ELSE Strip(raw_value.text)

IsDateFmt(f) == "yyyy" \in FmtLower(f) \/ "HIDZUKE" \in f \/ "WAREKI" \in f

IsAmountFmt(f) ==
  /\ ~IsDateFmt(f)
  /\ \/ "KINGAKU" \in f \/ "currency" \in FmtLower(f)
     \/ "SUUJI" \in f \/ "number" \in FmtLower(f)

\* an ISO-like text YYYY-M-D or YYYY/M/D that is no real calendar date
IsoShapedNotADate(s) ==
  /\ IsoMatch(s).ok
  /\ ~ValidDate(ToInt(IsoMatch(s).g1), ToInt(IsoMatch(s).g2), ToInt(IsoMatch(s).g3))

\* C2: normalize_value never raises: it returns a string for every raw value
\* and format tag, and a date-tagged ISO-like value that is not a real
\* calendar date is returned unchanged.
C2_NormalizeNeverRaises ==
  n_pc = "normalized" =>
    /\ norm.exc = "none"
    /\ (IsDateFmt(fmt) /\ IsoShapedNotADate(RawText)) => norm.val = RawText

\* C3: normalize_value is idempotent for every raw value and format tag:
\* normalize_value(normalize_value(r, f), f) = normalize_value(r, f).
C3_NormalizeIdempotent ==
  n_pc = "renormalized" =>
    /\ norm.exc = "none"
    /\ norm2.exc = "none"
    /\ norm2.val = norm.val

\* idempotence on the inputs on which the first call returns
C3_IdempotentWhereDefined ==
  (n_pc = "renormalized" /\ norm.exc = "none") =>
    norm2.exc = "none" /\ norm2.val = norm.val

\* the calendar day (year, month, day) a date text denotes; <<0, 0, 0>> when
\* the text is no date.  Three shapes: ISO-like, era (REI WA N NEN M GATSU D
\* NICHI, year N + 2018) and western year with NEN/GATSU/NICHI.
KanjiDateMatch(s) ==
  LET a2 == SkipIn(s, 1, Digits)
      b2 == SkipIn(s, a2 + 1, Digits)
      c2 == SkipIn(s, b2 + 1, Digits)
  IN  IF /\ a2 > 1 /\ a2 <= Len(s) /\ s[a2] = "NEN"
         /\ b2 > a2 + 1 /\ b2 <= Len(s) /\ s[b2] = "GATSU"
         /\ c2 > b2 + 1 /\ c2 = Len(s) /\ s[c2] = "NICHI"
      THEN [ok |-> TRUE, g1 |-> SubSeq(s, 1, a2 - 1),
            g2 |-> SubSeq(s, a2 + 1, b2 - 1), g3 |-> SubSeq(s, b2 + 1, c2 - 1),
            last |-> c2]
      ELSE NoMatch

SmallGroups(match) ==
  Len(StripZeros(match.g1)) <= 6 /\ Len(StripZeros(match.g2)) <= 6
    /\ Len(StripZeros(match.g3)) <= 6

CalendarDay(s) ==
  LET iso == IsoMatch(s)
      era == WarekiMatchAt(s, 1)
      west == KanjiDateMatch(s)
  IN  IF iso.ok THEN <<ToInt(iso.g1), ToInt(iso.g2), ToInt(iso.g3)>>
      ELSE IF era.ok /\ era.last = Len(s) /\ SmallGroups(era)
      THEN <<ToInt(era.g1) + 2018, ToInt(era.g2), ToInt(era.g3)>>
      ELSE IF west.ok /\ SmallGroups(west)
      THEN <<ToInt(west.g1), ToInt(west.g2), ToInt(west.g3)>>
      ELSE <<0, 0, 0>>

\* a valid date in one of the two supported input forms
IsValidDateRaw(s) ==
  /\ IsoMatch(s).ok \/ (WarekiMatchAt(s, 1).ok /\ WarekiMatchAt(s, 1).last = Len(s))
  /\ CalendarDay(s) # <<0, 0, 0>>
  /\ ValidDate(CalendarDay(s)[1], CalendarDay(s)[2], CalendarDay(s)[3])

\* C4: date round trip: for a date-tagged field and a raw value that is a
\* valid date in either supported form, to_excel_value(normalize_value(raw))
\* with type date_wareki or date_iso denotes the same calendar day as raw;
\* the era text of 1 April of year 6 normalizes to 2024-04-01 and comes back
\* unchanged with date_wareki.
C4_DateRoundTrip ==
  (/\ n_pc = "excel" /\ IsDateFmt(fmt) /\ raw_value.kind = "str"
   /\ IsValidDateRaw(RawText)
   /\ LowerType(value_type) \in {"date_wareki", "date_iso"}) =>
    /\ excel_value.exc = "none"
    /\ excel_value.kind = "str"
    /\ CalendarDay(excel_value.str) = CalendarDay(RawText)
    /\ RawText = Reiwa6April1 =>
         /\ norm.val = Iso20240401
         /\ value_type = "date_wareki" => excel_value.str = Reiwa6April1

C4_Witness ==
  /\ n_pc = "excel" /\ IsDateFmt(fmt) /\ RawText = Reiwa6April1
  /\ value_type = "date_wareki"
  /\ norm.val = Iso20240401
  /\ excel_value.str = Reiwa6April1

\* canonical decimal form: digits with an optional minus sign, no separators,
\* no leading zeros, no "-0"
IsCanonicalInt(s) ==
  /\ IsIntLiteral(s)
  /\ LET digs == IF s[1] = "-" THEN Tail(s) ELSE s
     IN  /\ Len(digs) > 1 => digs[1] # "0"
         /\ s[1] = "-" => digs # <<"0">>

\* the integer a literal -?\d+ denotes, as sign and significant digits
SignedDigits(s) ==
  LET digs == StripZeros(IF s[1] = "-" THEN Tail(s) ELSE s)
  IN  [neg |-> s[1] = "-" /\ digs # <<>>, digs |-> digs]

Amount1200000Yen == <<"1", ",", "2", "0", "0", ",", "0", "0", "0", "YEN">>

Digits1200000 == <<"1", "2", "0", "0", "0", "0", "0">>

ScenarioB ==
  RawText = Amount1200000Yen =>
    /\ norm.val = Digits1200000
    /\ (n_pc = "excel" /\ value_type = "currency") =>
         excel_value.kind = "int" /\ excel_value.int = 1200000

RawAnswerAt(id, hits) == IF hits = {} THEN Absent ELSE answers[MaxOf(hits)].raw_value

RawAnswerOf(id) ==
  RawAnswerAt(id, {i \in 1..Len(answers) : answers[i].field_id = id})

\* missing from the answers, null, or whitespace-only
IsEmptyRaw(v) ==
  \/ v.kind \in {"absent", "none"}
  \/ v.kind = "str" /\ Strip(v.text) = <<>>

\* the raw value is one of the placeholder tokens
IsPlaceholderRaw(v) ==
  /\ v.kind = "str"
  /\ Strip(v.text) \in UNKNOWN_MARKERS \/ Lower(Strip(v.text)) \in UNKNOWN_MARKERS

IssuesOf(id) == SelectSeq(issues, LAMBDA x : x.field_id = id)

WarningsOf(id) ==
  SelectSeq(issues, LAMBDA x : x.field_id = id /\ x.severity = "warning")

ErrorsOf(id) ==
  SelectSeq(issues, LAMBDA x : x.field_id = id /\ x.severity = "error")

\* the required catalog fields (those the catalog gives an id)
RequiredFields ==
  {i \in 1..Len(fields) :
     fields[i].field_id # "" /\ required_flag(fields[i].required)}

\* C6: for every required catalog field whose raw answer is empty (missing,
\* null or whitespace-only), validate_answers run on the output of
\* normalize_answers returns exactly one issue with that field_id, and it is
\* an error: no placeholder warning and no format warning.
C6_RequiredEmptyOneError ==
  v_pc = "validated" =>
    \A i \in RequiredFields :
      IsEmptyRaw(RawAnswerOf(fields[i].field_id)) =>
        /\ Len(IssuesOf(fields[i].field_id)) = 1
        /\ IssuesOf(fields[i].field_id)[1].severity = "error"

\* a required number field answered with blanks only got its one error
C6_Witness ==
  /\ v_pc = "validated"
  /\ \E i \in RequiredFields :
       /\ "SUUJI" \in fields[i].format
       /\ RawAnswerOf(fields[i].field_id) = StrValue(<<" ", " ">>)
       /\ IssuesOf(fields[i].field_id)
            = <<Issue(fields[i].field_id, "error", "required_missing")>>

\* the format checks whose marker the format tag contains
MarkedChecks(f) ==
  {c \in {"number", "phone", "postal", "date"} :
     \/ c = "number" /\ ("SUUJI" \in f \/ "number" \in FmtLower(f))
     \/ c = "phone" /\ ("DENWA" \in f \/ "0xx" \in FmtLower(f))
     \/ c = "postal" /\ ("YUUBIN" \in f \/ "POSTMARK" \in f)
     \/ c = "date" /\ IsDateFmt(f)}

\* C7 as stated: for a required field whose raw value is a placeholder token,
\* validate_answers returns exactly one warning and no error with that
\* field_id, whatever the format tag of the field.
C7_PlaceholderAsStated ==
  v_pc = "validated" =>
    \A i \in RequiredFields :
      IsPlaceholderRaw(RawAnswerOf(fields[i].field_id)) =>
        /\ Len(WarningsOf(fields[i].field_id)) = 1
        /\ Len(ErrorsOf(fields[i].field_id)) = 0

\* C7, amended: for a required field whose raw value is a placeholder token,
\* validate_answers returns no error with that field_id, exactly one
\* placeholder warning (the first issue of the field), and one more warning
\* for each format check (number, phone, postal, date) whose marker is in
\* the field's format tag.
C7_PlaceholderWarnings ==
  v_pc = "validated" =>
    \A i \in RequiredFields :
      IsPlaceholderRaw(RawAnswerOf(fields[i].field_id)) =>
        /\ Len(ErrorsOf(fields[i].field_id)) = 0
        /\ Len(SelectSeq(IssuesOf(fields[i].field_id),
                         LAMBDA x : x.message = "required_placeholder")) = 1
        /\ IssuesOf(fields[i].field_id)[1].message = "required_placeholder"
        /\ Len(WarningsOf(fields[i].field_id))
             = 1 + Cardinality(MarkedChecks(fields[i].format))

\* a required number-and-phone field holding a placeholder got three warnings
C7_Witness ==
  /\ v_pc = "validated"
  /\ \E i \in RequiredFields :
       /\ fields[i].format = {"SUUJI", "DENWA"}
       /\ RawAnswerOf(fields[i].field_id) = StrValue(<<"FU", "MEI">>)
       /\ Len(WarningsOf(fields[i].field_id)) = 3
       /\ Len(ErrorsOf(fields[i].field_id)) = 0

(***************************************************************************)
(* Claims about write_templates (checked under SpecWrite).                 *)
(***************************************************************************)
\* the templates whose iteration is over
Handled == 1..(t_idx - 1)

SourceMissing(i) == templates[i].source_file \notin DOMAIN template_dir

IsSkipped(i) == SourceMissing(i) \/ IsLegacyXls(templates[i].source_file)

\* the templates that were loaded, filled and saved
Filled == {i \in Handled : ~IsSkipped(i)}

WriterFieldIds == {"F1", "F2", "F3"}

\* the steps of one pass of template i on one field, in order
EventsOf(i, pass, f) ==
  SelectSeq(trace, LAMBDA e : e.t = i /\ e.pass = pass /\ e.field_id = f)

WritesOf(i, pass, f) ==
  SelectSeq(trace, LAMBDA e : e.t = i /\ e.pass = pass /\ e.field_id = f
                               /\ e.kind = "write")

\* the explicit entry of template i for field f
ConfOf(i, f) ==
  templates[i].mappings[CHOOSE k \in 1..Len(templates[i].mappings) :
                          templates[i].mappings[k].field_id = f]

\* the catalog gives f a cell range in one of the auto-source forms of
\* template i
AutoMappable(i, f) ==
  /\ SchemaField(schema_lookup, f) # NoField
  /\ SchemaField(schema_lookup, f).form_file \in SourceFormFiles(templates[i])
  /\ Strip(SchemaField(schema_lookup, f).cell_range) # <<>>

\* field f reaches the resolution of its cell expression in this pass
Resolving(i, pass, f) ==
  /\ AnswerNorm(answers_norm, f) # <<>>
  /\ IF pass = 1 THEN f \in ExplicitFieldIds(templates[i])
     ELSE f \notin ExplicitFieldIds(templates[i]) /\ AutoMappable(i, f)

\* the cell expression that is resolved
CellExpr(i, pass, f) ==
  IF pass = 1
  THEN ExplicitCellSpec(Strip(ConfOf(i, f).sheet), Strip(ConfOf(i, f).cell))
  ELSE Strip(SchemaField(schema_lookup, f).cell_range)

ResolvedTargets(i, pass, f) ==
  IF Resolving(i, pass, f) THEN parse_targets(CellExpr(i, pass, f), <<>>)
  ELSE <<>>

SheetNames(i) == template_dir[templates[i].source_file]

\* C1: for every template and every field_id with an entry in the template's
\* explicit mappings, pass 2 never calls _write_to_target for that field_id
\* in that template.
C1_ExplicitNeverAutoMapped ==
  \A k \in 1..Len(trace) :
    (trace[k].kind = "write" /\ trace[k].pass = 2) =>
      trace[k].field_id \notin ExplicitFieldIds(templates[trace[k].t])

\* a field with a non-empty answer whose explicit entry gave only a warning
\* note and which the catalog maps into an auto-source form of the template
\* was not written, while pass 2 did write another field
C1_Witness ==
  /\ w_pc = "returned"
  /\ \E i \in Filled : \E f \in ExplicitFieldIds(templates[i]) :
       /\ AnswerNorm(answers_norm, f) # <<>>
       /\ AutoMappable(i, f)
       /\ EventsOf(i, 1, f) # <<>>
       /\ WritesOf(i, 1, f) = <<>>
       /\ WritesOf(i, 2, f) = <<>>
       /\ \E g \in WriterFieldIds : WritesOf(i, 2, g) # <<>>

\* C8: in both passes, the steps taken for a field whose expression has
\* resolved targets are, target by target and in order: one warning note
\* (for that field_id and template) and no write when the target's sheet is
\* not in the workbook, one write otherwise; this holds for every field of
\* every loaded template, and each such template is saved.
C8_MissingSheetOneNote ==
  /\ notes = NotesOf(trace)
  /\ Len(output_files) = Cardinality(Filled)
  /\ \A i \in Filled : \A pass \in {1, 2} : \A f \in WriterFieldIds :
       ResolvedTargets(i, pass, f) # <<>> =>
         /\ Len(EventsOf(i, pass, f)) = Len(ResolvedTargets(i, pass, f))
         /\ \A k \in 1..Len(ResolvedTargets(i, pass, f)) :
              IF ResolvedTargets(i, pass, f)[k][1] \notin SheetNames(i)
              THEN EventsOf(i, pass, f)[k] =
                     NoteEvent(i, pass, f, TemplateKey(templates[i]), "warning",
                               <<"sheet_missing">>
                                 \o ResolvedTargets(i, pass, f)[k][1])
              ELSE /\ EventsOf(i, pass, f)[k].kind = "write"
                   /\ EventsOf(i, pass, f)[k].sheet
                        = ResolvedTargets(i, pass, f)[k][1]
                   /\ EventsOf(i, pass, f)[k].cell
                        = ResolvedTargets(i, pass, f)[k][2]

\* the first target of the field names a missing sheet and got a note, the
\* second one was written
MissingThenWritten(i, pass, f) ==
  /\ Len(ResolvedTargets(i, pass, f)) >= 2
  /\ ResolvedTargets(i, pass, f)[1][1] \notin SheetNames(i)
  /\ Len(EventsOf(i, pass, f)) >= 2
  /\ EventsOf(i, pass, f)[1].kind = "note"
  /\ EventsOf(i, pass, f)[2].kind = "write"

\* both passes of one template met a missing sheet and went on, and the
\* template was saved
C8_Witness ==
  /\ w_pc = "returned"
  /\ \E i \in Filled : \E f, g \in WriterFieldIds :
       /\ MissingThenWritten(i, 1, f)
       /\ MissingThenWritten(i, 2, g)
       /\ \E k \in 1..Len(output_files) : output_files[k] = OutputFile(templates[i])

\* the non-empty segments of a cell expression
Segments(expr) ==
  SelectSeq(Split(ReplaceNewlines(expr), ";"), LAMBDA s : Strip(s) # <<>>)

UnresolvedSegments(expr) ==
  SelectSeq(Segments(expr), LAMBDA s : ~parse_target_segment(s, <<>>).ok)

\* the notes about an expression that does not resolve
UnresolvedNotes(i, pass, f) ==
  SelectSeq(EventsOf(i, pass, f),
            LAMBDA e : e.kind = "note"
                       /\ e.message[1] \in {"bad_cell", "cell_range_failed"})

\* C9: in either pass, every segment of the cell expression of a field that
\* cannot be resolved to a (sheet, cell) target produces one warning note.
C9_UnresolvedSegmentNoted ==
  \A i \in Filled : \A pass \in {1, 2} : \A f \in WriterFieldIds :
    Resolving(i, pass, f) =>
      Len(UnresolvedNotes(i, pass, f))
        = Len(UnresolvedSegments(CellExpr(i, pass, f)))

\* what the code does instead: one note when no segment of the expression
\* resolves, none when at least one does
C9_NoteOnlyWhenNothingResolves ==
  \A i \in Filled : \A pass \in {1, 2} : \A f \in WriterFieldIds :
    Resolving(i, pass, f) =>
      Len(UnresolvedNotes(i, pass, f))
        = IF ResolvedTargets(i, pass, f) = <<>> THEN 1 ELSE 0

\* the "*" notes and the output paths the claim requires of a list of
\* templates, in declaration order
RECURSIVE RequiredSkipNotes(_)
RequiredSkipNotes(ts) ==
  IF ts = <<>> THEN <<>>
  ELSE (IF Head(ts).source_file \notin DOMAIN template_dir
        THEN <<<<TemplateKey(Head(ts)), "error">>>>
        ELSE IF IsLegacyXls(Head(ts).source_file)
        THEN <<<<TemplateKey(Head(ts)), "warning">>>>
        ELSE <<>>)
         \o RequiredSkipNotes(Tail(ts))

RECURSIVE RequiredOutputs(_)
RequiredOutputs(ts) ==
  IF ts = <<>> THEN <<>>
  ELSE (IF \/ Head(ts).source_file \notin DOMAIN template_dir
           \/ IsLegacyXls(Head(ts).source_file)
        THEN <<>> ELSE <<OutputFile(Head(ts))>>)
         \o RequiredOutputs(Tail(ts))

\* the notes with field_id "*", as <<template, level>>
RECURSIVE StarNotes(_)
StarNotes(ns) ==
  IF ns = <<>> THEN <<>>
  ELSE (IF Head(ns).field_id = "*"
        THEN <<<<Head(ns).template, Head(ns).level>>>> ELSE <<>>)
         \o StarNotes(Tail(ns))

\* C10: over the templates handled so far, in declaration order: a missing
\* source gives exactly one error note with field_id "*", an existing legacy
\* .xls source exactly one warning note with field_id "*"; a skipped
\* template has no other note, no write and no output; output_files holds
\* exactly the output paths of the other templates, in order; and
\* write_templates returns only after the last template.
C10_SkippedTemplates ==
  /\ notes = NotesOf(trace)
  /\ StarNotes(notes) = RequiredSkipNotes(SubSeq(templates, 1, t_idx - 1))
  /\ output_files = RequiredOutputs(SubSeq(templates, 1, t_idx - 1))
  /\ \A k \in 1..Len(trace) :
       IsSkipped(trace[k].t) =>
         trace[k].kind = "note" /\ trace[k].field_id = "*"
  /\ w_pc = "returned" => t_idx - 1 = Len(templates)

\* a template with a missing source was skipped with its error note and a
\* later template was filled and saved
C10_Witness ==
  /\ w_pc = "returned"
  /\ \E i, j \in 1..Len(templates) :
       /\ i < j
       /\ SourceMissing(i)
       /\ ~IsSkipped(j)
       /\ output_files = <<OutputFile(templates[j])>>
       /\ StarNotes(notes) = <<<<TemplateKey(templates[i]), "error">>>>


\* the auto-source forms template i declares, its own source file when it
\* declares none
DeclaredForms(i) ==
  IF templates[i].source_form_files = <<>> THEN {templates[i].source_file}
  ELSE {templates[i].source_form_files[k] :
          k \in 1..Len(templates[i].source_form_files)}

CatalogIds == {schema_lookup[k].field_id : k \in 1..Len(schema_lookup)}

CatalogEntry(f) ==
  schema_lookup[CHOOSE k \in 1..Len(schema_lookup) : schema_lookup[k].field_id = f]

AnsweredIds ==
  {answers_norm[k].field_id : k \in 1..Len(answers_norm)}

StoredNorm(f) ==
  answers_norm[CHOOSE k \in 1..Len(answers_norm) : answers_norm[k].field_id = f].norm

\* the five conditions of pass 2 for field f in template i
AutoConditions(i, f) ==
  /\ f \in AnsweredIds
  /\ StoredNorm(f) # <<>>
  /\ \A k \in 1..Len(templates[i].mappings) : templates[i].mappings[k].field_id # f
  /\ f \in CatalogIds
  /\ CatalogEntry(f).form_file \in DeclaredForms(i)
  /\ CatalogEntry(f).cell_range # <<>>

\* the steps of pass 2 of template i: writes and notes
Pass2Events(i, f) == EventsOf(i, 2, f)

\* C21: pass 2 of write_templates writes a field only if its normalized
\* answer is non-empty, the template has no explicit mapping for it, the
\* catalog has an entry for it, the entry's form_file is among the
\* template's declared auto-source forms (its own source_file when none are
\* declared) and the entry's cell_range is non-empty; for a field failing
\* any of these, pass 2 makes no write and no note in that template.
C21_AutoMapConditions ==
  \A i \in Handled : \A f \in WriterFieldIds :
    ~AutoConditions(i, f) => Pass2Events(i, f) = <<>>

\* in one filled template pass 2 wrote a field that meets the conditions and
\* passed over, without a write or a note, an answered field that the
\* catalog places in a form the template does not consume
C21_Witness ==
  /\ w_pc = "returned"
  /\ \E i \in Filled : \E f, g \in WriterFieldIds :
       /\ AutoConditions(i, f)
       /\ WritesOf(i, 2, f) # <<>>
       /\ g \in AnsweredIds
       /\ StoredNorm(g) # <<>>
       /\ g \in CatalogIds
       /\ CatalogEntry(g).form_file \notin DeclaredForms(i)
       /\ CatalogEntry(g).cell_range # <<>>
       /\ Pass2Events(i, g) = <<>>

\* template i has an explicit entry for field f
HasOwnEntry(i, f) ==
  \E k \in 1..Len(templates[i].mappings) : templates[i].mappings[k].field_id = f

\* the steps of template i, without the position of the template
StepsOfTemplate(i) ==
  [k \in 1..Len(SelectSeq(trace, LAMBDA e : e.t = i)) |->
     [SelectSeq(trace, LAMBDA e : e.t = i)[k] EXCEPT !.t = 0]]

\* the steps of the trace are grouped by template, in declaration order
GroupedByTemplate ==
  \A k \in 1..(Len(trace) - 1) : trace[k].t <= trace[k + 1].t

\* C22: mapping is independent per template: a field with an explicit entry
\* in template A and none in template B is still auto-mapped in B (pass 2 of
\* B takes a step for it, one per resolved target) when it is answered and
\* the catalog places it, with a cell range, in a form B consumes; and the
\* writes and notes of a template are those of its own configuration: two
\* templates with the same configuration take the same steps wherever they
\* stand in the list, and the steps of one template are never mixed with
\* those of another.
C22_PerTemplateMapping ==
  /\ \A a, b \in Filled : \A f \in WriterFieldIds :
       ( /\ a # b
         /\ HasOwnEntry(a, f)
         /\ AutoConditions(b, f)
         /\ Strip(CatalogEntry(f).cell_range) # <<>> ) =>
           /\ Pass2Events(b, f) # <<>>
           /\ parse_targets(Strip(CatalogEntry(f).cell_range), <<>>) # <<>> =>
                Len(Pass2Events(b, f))
                  = Len(parse_targets(Strip(CatalogEntry(f).cell_range), <<>>))
  /\ \A a, b \in Handled :
       templates[a] = templates[b] => StepsOfTemplate(a) = StepsOfTemplate(b)
  /\ GroupedByTemplate

\* field f was written by the explicit entry of the first template and by
\* the auto mapping of the second, which has no entry for it but consumes
\* its form
C22_Witness ==
  /\ w_pc = "returned"
  /\ \E a, b \in Filled : \E f \in WriterFieldIds :
       /\ a < b
       /\ HasOwnEntry(a, f)
       /\ WritesOf(a, 1, f) # <<>>
       /\ WritesOf(a, 2, f) = <<>>
       /\ ~HasOwnEntry(b, f)
       /\ AutoConditions(b, f)
       /\ WritesOf(b, 2, f) # <<>>

(***************************************************************************)
(* Claims about _write_to_target (SpecFill).                               *)
(***************************************************************************)
\* the writes that reached the cell in row r and column c
WritesAt(r, c) ==
  {k \in DOMAIN fill_cells : fill_cells[k].row = r /\ fill_cells[k].col = c}

\* the i-th character of the text, or the empty string past its end
CharOrEmpty(text, i) ==
  IF i <= Len(text) THEN XStr(<<text[i]>>) ELSE XStr(<<>>)

\* C11: writing value v to a target range of n > 1 cells sets the i-th cell
\* of the range in reading order (row-major) to the i-th character of str(v)
\* when i <= len(str(v)) and to the empty string otherwise; a single-cell
\* target receives v itself; no cell outside the range is written.
C11_RangeFill ==
  fill_pc = "written" =>
    LET b == range_boundaries(fill_target)
        width == b.max_col - b.min_col + 1
        n == width * (b.max_row - b.min_row + 1)
    IN  /\ \A k \in DOMAIN fill_cells :
             /\ fill_cells[k].row \in b.min_row..b.max_row
             /\ fill_cells[k].col \in b.min_col..b.max_col
        /\ \A r \in b.min_row..b.max_row, c \in b.min_col..b.max_col :
             /\ Cardinality(WritesAt(r, c)) = 1
             /\ \A k \in WritesAt(r, c) :
                  fill_cells[k].value =
                    IF n = 1 THEN fill_value
                    ELSE CharOrEmpty(StrOfValue(fill_value),
                                     (r - b.min_row) * width
                                       + (c - b.min_col) + 1)

\* a 1x4 range written with "ABC" got "A", "B", "C" and the empty string
C11_Witness ==
  /\ fill_pc = "written"
  /\ fill_target = <<"A", "1", ":", "D", "1">>
  /\ fill_value = XStr(<<"A", "B", "C">>)
  /\ fill_cells = <<Cell(1, 1, XStr(<<"A">>)), Cell(1, 2, XStr(<<"B">>)),
                    Cell(1, 3, XStr(<<"C">>)), Cell(1, 4, XStr(<<>>))>>

(***************************************************************************)
(* Claims about the cross-field check and the order of the issues          *)
(* (SpecValidate).                                                         *)
(***************************************************************************)
\* validate_answers has ended, with a list or with an exception
ValidateEnded == v_pc \in {"validated", "validate_raised"}

CrossIssues == SelectSeq(issues, LAMBDA x : x.field_id = "_cross_check")

\* the normalized answers with a tagged field id and a pure-digit value
PureDigitAnswers(tags) ==
  {i \in 1..Len(normalized) :
     /\ UpperTags(normalized[i].field_id) \cap tags # {}
     /\ isdigit(normalized[i].norm)}

\* the number the last answer of the set stands for (none: -1)
LastValue(S) ==
  IF S = {} \/ ~AllDigits(normalized[MaxOf(S \cup {0})].norm) THEN -1
  ELSE ToInt(normalized[MaxOf(S)].norm)

\* the condition of the claim: a vehicle value and a driver value exist and
\* the last driver value is strictly less than the last vehicle value
DriversBelowVehicles ==
  /\ LastValue(PureDigitAnswers(VehicleTags)) # -1
  /\ LastValue(PureDigitAnswers(DriverTags)) # -1
  /\ LastValue(PureDigitAnswers(DriverTags))
       < LastValue(PureDigitAnswers(VehicleTags))

\* C12 as stated: validate_answers appends exactly one warning with field id
\* "_cross_check" if and only if there are a vehicle-tagged and a
\* driver-tagged answer with pure-digit normalized values and the last driver
\* value is strictly less than the last vehicle value.
C12_CrossCheckAsStated ==
  ValidateEnded =>
    /\ Len(CrossIssues) <= 1
    /\ \A k \in 1..Len(CrossIssues) : CrossIssues[k].severity = "warning"
    /\ Len(CrossIssues) = 1 <=> DriversBelowVehicles

\* C12 on the calls that return: the same equivalence
C12_CrossCheckWhereReturns ==
  v_pc = "validated" =>
    /\ Len(CrossIssues) <= 1
    /\ \A k \in 1..Len(CrossIssues) : CrossIssues[k].severity = "warning"
    /\ Len(CrossIssues) = 1 <=> DriversBelowVehicles

\* vehicle "3" and driver "2" gave the warning
C12_Witness ==
  /\ v_pc = "validated"
  /\ \E i, j \in 1..Len(normalized) :
       /\ normalized[i].field_id = "VEHICLE_COUNT" /\ normalized[i].norm = <<"3">>
       /\ normalized[j].field_id = "driver_count" /\ normalized[j].norm = <<"2">>
  /\ Len(CrossIssues) = 1

\* the position of a field id in the catalog
CatalogIndex(id) == MinOf({i \in 1..Len(fields) : fields[i].field_id = id})

\* the issues are in catalog order, the cross-check issue last
InCatalogOrder ==
  /\ \A p \in 1..Len(issues) :
       \/ issues[p].field_id = "_cross_check" /\ p = Len(issues)
       \/ \E i \in 1..Len(fields) :
            fields[i].field_id # "" /\ fields[i].field_id = issues[p].field_id
  /\ \A p, q \in 1..Len(issues) :
       (p < q /\ issues[q].field_id # "_cross_check")
         => CatalogIndex(issues[p].field_id) <= CatalogIndex(issues[q].field_id)

\* every required field without an entry in the answers has its error
UnansweredChecked ==
  \A i \in RequiredFields :
    RawAnswerOf(fields[i].field_id) = Absent
      => Len(ErrorsOf(fields[i].field_id)) = 1

\* C13 as stated: validate_answers checks every field of the catalog, also
\* those without an entry in the answers, returns the issues in catalog
\* order with the cross-check issue last, and never raises.
C13_AllCheckedInOrderNeverRaises ==
  /\ v_pc # "validate_raised"
  /\ v_pc = "validated" => InCatalogOrder /\ UnansweredChecked

\* C13 on the calls that return: every field checked, issues in catalog
\* order, the cross-check issue last
C13_InOrderWhereReturns ==
  v_pc = "validated" => InCatalogOrder /\ UnansweredChecked

\* issues of two catalog fields and the cross-check issue were returned
C13_Witness ==
  /\ v_pc = "validated"
  /\ Len(issues) >= 3
  /\ issues[Len(issues)].field_id = "_cross_check"
  /\ issues[1].field_id # issues[2].field_id

(***************************************************************************)
(* Claims about the export requests (SpecExport).                          *)
(***************************************************************************)
\* the operations that write a file or make a directory
WriteOps == {a \in fs_log : a.op # "load"}

\* the path lies below the directory
Below(path, dir) == Len(path) > Len(dir) /\ SubSeq(path, 1, Len(dir)) = dir

OwnWorkDir(p) == <<exp[p].case_id, exp[p].export_id>>

\* C14: for any interleaving of export requests, for different cases or the
\* same case, each export writes its output documents, review report and
\* debug file only below the working directory keyed by its own export id,
\* which no other export has, so no path is written by two different exports.
C14_NoSharedPaths ==
  /\ \A a \in WriteOps :
       /\ exp[a.by].export_id # NoId
       /\ \A q \in Exports \ {a.by} : exp[q].export_id # exp[a.by].export_id
       /\ a.op \in {"save", "report", "debug"} => Below(a.path, OwnWorkDir(a.by))
  /\ \A a, b \in WriteOps : a.by # b.by => a.path # b.path

\* two exports of the same case have both written their documents, report
\* and debug file, in some interleaving
C14_Witness ==
  /\ exp[1].case_id = exp[2].case_id
  /\ \A p \in {1, 2} :
       /\ exp[p].pc = "done"
       /\ \A op \in {"save", "report", "debug", "zip"} :
            \E a \in fs_log : a.by = p /\ a.op = op

\* the request has loaded, saved or written no document and no archive, and
\* the exports table has no row of it
NothingTouched(p) ==
  /\ \A a \in fs_log : a.by = p => a.op = "mkdir"
  /\ \A r \in db_exports : r.id # exp[p].export_id

\* a request that ended on a configuration error has touched no document
ConfigErrorsEarly ==
  \A p \in Exports :
    (exp[p].pc = "failed" /\ exp[p].error \in {"schema", "mapping"})
      => NothingTouched(p)

\* the request of a stored case takes its first step
Starts(p) ==
  /\ exp[p].pc = "requested"
  /\ exp'[p].pc # "requested"
  /\ exp[p].case_id \in CaseIds

\* the request calls write_templates
CallsWriteTemplates(p) == exp[p].pc = "allocated" /\ exp'[p].pc # "allocated"

FailsOn(p, error) == exp'[p].pc = "failed" /\ exp'[p].error = error

\* C16 as stated: if the catalog source is missing or has no top-level list
\* of fields, or the mapping source is missing, an export request fails
\* before any output document is loaded, modified or saved, and no export
\* artifact is recorded.
C16_ConfigErrorsAsStated ==
  /\ []ConfigErrorsEarly
  /\ [][\A p \in Exports :
          /\ (Starts(p) /\ schema_source # "ok") => FailsOn(p, "schema")
          /\ (CallsWriteTemplates(p) /\ mapping_source = "missing")
               => FailsOn(p, "mapping")]_vars

\* C16, corrected: the catalog source is read only when no catalog is cached
\* in the process.  A request that starts fails on the catalog exactly when
\* nothing is cached and the source is missing or has no list of fields; a
\* request that calls write_templates fails exactly when the mapping source
\* is missing; either failure comes before any document is loaded or saved
\* and leaves no export record.
C16_ConfigErrorsWhenLoaded ==
  /\ []ConfigErrorsEarly
  /\ [][\A p \in Exports :
          /\ Starts(p) =>
               ((schema_cache = "empty" /\ schema_source # "ok")
                  <=> FailsOn(p, "schema"))
          /\ CallsWriteTemplates(p) =>
               (mapping_source = "missing" <=> FailsOn(p, "mapping"))]_vars

\* one request failed on the catalog source, which has no list of fields,
\* after the working directory of no request was made
C16_Witness ==
  /\ schema_source = "no_fields"
  /\ \E p \in Exports :
       /\ exp[p].pc = "failed" /\ exp[p].error = "schema"
       /\ exp[p].case_id \in CaseIds
  /\ fs_log = {}

\* the files the request wrote
FilesOf(p) ==
  {a \in fs_log : a.by = p /\ a.op \in {"save", "report", "debug", "zip"}}

\* all templates, the review report and the archive of the request are written
AllWritten(p) ==
  /\ \A i \in 1..Len(MappingTemplates) :
       \E a \in FilesOf(p) :
         a.op = "save" /\ a.path = OwnWorkDir(p) \o <<MappingTemplates[i].output_file>>
  /\ \E a \in FilesOf(p) : a.op = "report"
  /\ \E a \in FilesOf(p) : a.op = "zip"

\* an export record and the status 'exported' exist only for a request that
\* has written everything, and the record carries the checksum of the archive
RecordsOnlyWhenComplete ==
  /\ \A r \in db_exports :
       /\ r.checksum = Checksum(r.zip_path)
       /\ \E p \in Exports :
            exp[p].export_id = r.id /\ exp[p].case_id = r.case_id /\ AllWritten(p)
  /\ \A c \in CaseIds :
       db_cases[c].status = "exported" <=> \E r \in db_exports : r.case_id = c

\* a failed request has no export record
FailedUnrecorded ==
  \A p \in Exports :
    exp[p].pc = "failed" => \A r \in db_exports : r.id # exp[p].export_id

\* C18 as stated: the export record with its checksum is saved and the case
\* status becomes 'exported' only after all templates, the review report and
\* the archive have been written; if the export fails at an earlier stage no
\* export record is saved, the case status is unchanged, and every file the
\* failed export left behind lies inside its own working directory.
C18_CompletesOrFailsCleanly ==
  /\ RecordsOnlyWhenComplete
  /\ FailedUnrecorded
  /\ \A p \in Exports :
       exp[p].pc = "failed"
         => \A a \in FilesOf(p) : Below(a.path, OwnWorkDir(p))

\* C18 but for the archive: the files a failed export left behind lie inside
\* its working directory, or are its archive next to that directory
C18_FailsCleanlyButArchive ==
  /\ RecordsOnlyWhenComplete
  /\ FailedUnrecorded
  /\ \A p \in Exports :
       exp[p].pc = "failed"
         => \A a \in FilesOf(p) :
              \/ Below(a.path, OwnWorkDir(p))
              \/ a.op = "zip" /\ a.path = ZipPath(exp[p].case_id, exp[p].export_id)

\* one request completed and one failed after its archive was written
C18_Witness ==
  /\ \E p \in Exports : exp[p].pc = "done" /\ db_cases[exp[p].case_id].status = "exported"
  /\ \E p \in Exports : exp[p].pc = "failed" /\ exp[p].error = "record"

(***************************************************************************)
(* Claims about create_review_report (SpecReport).                         *)
(***************************************************************************)
\* C15: the sheet starts with the fixed header, followed by exactly one row
\* per validation issue (kind "validation", template empty) in the order of
\* the issues, followed by exactly one row per mapping note (kind "mapping")
\* in the order of the notes; it has 1 + |issues| + |notes| rows and no
\* validation row follows a mapping row.
C15_ReviewRows ==
  report_pc = "saved" =>
    /\ Len(report_rows) = 1 + Len(validation_issues) + Len(mapping_notes)
    /\ report_rows[1] = <<"kind", "severity", "field_id", "message", "template">>
    /\ \A i \in 1..Len(validation_issues) :
         /\ report_rows[1 + i][1] = "validation"
         /\ report_rows[1 + i][5] = ""
         /\ report_rows[1 + i][3] = validation_issues[i].field_id
         /\ report_rows[1 + i][4] = validation_issues[i].message
         /\ "severity" \in DOMAIN validation_issues[i]
              => report_rows[1 + i][2] = validation_issues[i].severity
    /\ \A j \in 1..Len(mapping_notes) :
         LET row == report_rows[1 + Len(validation_issues) + j]
         IN  /\ row[1] = "mapping"
             /\ "level" \in DOMAIN mapping_notes[j] => row[2] = mapping_notes[j].level
             /\ row[3] = mapping_notes[j].field_id
             /\ row[4] = mapping_notes[j].message
             /\ "template" \in DOMAIN mapping_notes[j]
                  => row[5] = mapping_notes[j].template
    /\ \A a, b \in 2..Len(report_rows) :
         (report_rows[a][1] = "mapping" /\ a < b) => report_rows[b][1] # "validation"

\* two issues and two notes were written
C15_Witness ==
  /\ report_pc = "saved"
  /\ Len(validation_issues) = 2
  /\ Len(mapping_notes) = 2
  /\ Len(report_rows) = 5
  /\ report_rows[3][1] = "validation"
  /\ report_rows[4][1] = "mapping"

(***************************************************************************)
(* Claims about the schema extraction (SpecSchema).                        *)
(***************************************************************************)
\* the keys of the dictionary get_field_lookup builds from the catalog
LookupKeys(fields_) ==
  {get_field_lookup(fields_)[i].field_id : i \in 1..Len(get_field_lookup(fields_))}

\* the catalog fields with a non-empty id
IdentifiedFields(fields_) == {i \in 1..Len(fields_) : fields_[i].field_id # ""}

FieldIdsUnique(fields_) ==
  \A i, j \in 1..Len(fields_) : i # j => fields_[i].field_id # fields_[j].field_id

\* C17 as stated: the list build_fields returns for any input records never
\* contains two records with the same field_id, so get_field_lookup has
\* exactly one entry per catalog field with a non-empty id.
C17_FieldIdUnique ==
  build_pc = "built" =>
    /\ FieldIdsUnique(built_fields)
    /\ Cardinality(LookupKeys(built_fields))
         = Cardinality(IdentifiedFields(built_fields))

\* C17 for records whose trimmed Field_ID values differ: the same conclusion
C17_UniqueWhenRecordsUnique ==
  (/\ build_pc = "built"
   /\ \A i, j \in 1..Len(records) :
        (i # j /\ StripText(records[i].Field_ID) # "")
          => StripText(records[i].Field_ID) # StripText(records[j].Field_ID))
    => /\ FieldIdsUnique(built_fields)
       /\ Cardinality(LookupKeys(built_fields))
            = Cardinality(IdentifiedFields(built_fields))
       /\ \A i \in 1..Len(built_fields) : built_fields[i].field_id # ""

(***************************************************************************)
(* Claims about the two format classifiers (SpecNorm).                     *)
(***************************************************************************)
\* the class of a value type of the auto-mapping
ClassOfType(t) ==
  CASE t \in {"date_wareki", "date_iso"} -> "date"
    [] t \in {"text", "text_multiline"} -> "text"
    [] OTHER -> t

\* C19 as stated: for every format tag, the value type infer_value_type
\* chooses belongs to the class of the branch normalize_value takes for the
\* tag (date, currency, number, checkbox, free text).
C19_ClassifiersAgree ==
  n_pc = "normalized" => ClassOfType(infer_value_type(fmt)) = NormalizeBranch(fmt)

\* the markers only one of the two classifiers knows: the English words for
\* currency and number, and the kana word for the checkbox
OneSidedMarkers(f) ==
  \/ {"currency", "number"} \cap FmtLower(f) # {}
  \/ "CHECK_KANA" \in f

\* C19 for the tags without such a marker: the classifiers agree
C19_AgreeOnSharedMarkers ==
  (n_pc = "normalized" /\ ~OneSidedMarkers(fmt))
    => ClassOfType(infer_value_type(fmt)) = NormalizeBranch(fmt)

(***************************************************************************)
(* Claims about the date-shape check (SpecValidate).                       *)
(***************************************************************************)
\* the catalog fields with an id, a date marker in the format tag and a
\* non-empty normalized value
DatedFields ==
  {i \in 1..Len(fields) :
     /\ fields[i].field_id # ""
     /\ IsDateFmt(fields[i].format)
     /\ Strip(AnswerObj(normalized, fields[i].field_id).norm) # <<>>}

NormOf(i) == Strip(AnswerObj(normalized, fields[i].field_id).norm)

\* the era name followed by N NEN M GATSU D NICHI and nothing else
EraShape(s) ==
  /\ StartsWith(s, <<"REI", "WA">>)
  /\ KanjiDateMatch(SubSeq(s, 3, Len(s))).ok

DateWarnings(i) ==
  SelectSeq(issues, LAMBDA x : x.field_id = fields[i].field_id
                                 /\ x.message = "date_format")

\* C20 as stated: for a date-tagged field with a non-empty normalized value,
\* validate_answers appends exactly one date-format warning if and only if
\* the value is neither of ISO-like shape nor of the era shape; values of
\* either shape get no date warning.
C20_DateShapeWarning ==
  v_pc = "validated" =>
    \A i \in DatedFields :
      /\ Len(DateWarnings(i)) <= 1
      /\ \A k \in 1..Len(DateWarnings(i)) : DateWarnings(i)[k].severity = "warning"
      /\ Len(DateWarnings(i)) = 1
           <=> ~(IsoMatch(NormOf(i)).ok \/ EraShape(NormOf(i)))

\* C20 for the values that do not start with the era name without having the
\* era shape: the same equivalence
C20_DateShapeButEraPrefix ==
  v_pc = "validated" =>
    \A i \in DatedFields :
      (StartsWith(NormOf(i), <<"REI", "WA">>) => EraShape(NormOf(i)))
        => /\ Len(DateWarnings(i)) <= 1
           /\ Len(DateWarnings(i)) = 1
                <=> ~(IsoMatch(NormOf(i)).ok \/ EraShape(NormOf(i)))

\* the stored values of a field of a case in a table, if any
RowAt(table, c, f) ==
  IF \E i \in 1..Len(table) : table[i].case_id = c /\ table[i].field_id = f
  THEN [present |-> TRUE,
        raw |-> table[CHOOSE i \in 1..Len(table) :
                        table[i].case_id = c /\ table[i].field_id = f].answer_raw,
        norm |-> table[CHOOSE i \in 1..Len(table) :
                         table[i].case_id = c /\ table[i].field_id = f].answer_norm]
  ELSE [present |-> FALSE, raw |-> <<>>, norm |-> <<>>]

\* the field ids a PUT names
PayloadIds(p) == {put[p].answers[i].field_id : i \in 1..Len(put[p].answers)}

PayloadValue(p, f) ==
  put[p].answers[CHOOSE i \in 1..Len(put[p].answers) :
                   put[p].answers[i].field_id = f].raw_value

\* the row a PUT stores for a field it names: the text of the value and its
\* normalization under the field's format
PutRow(p, f) ==
  [present |-> TRUE,
   raw |-> AnswerText(PayloadValue(p, f)),
   norm |-> normalize_value(StrValue(AnswerText(PayloadValue(p, f))),
                            LookupFormat(AnswerCatalog, f)).val]

\* the stored answers of a case, as validate_answers takes them
RECURSIVE StoredAnswers(_, _)
StoredAnswers(table, c) ==
  IF table = <<>> THEN <<>>
  ELSE (IF Head(table).case_id = c
        THEN <<[field_id |-> Head(table).field_id,
                raw |-> Head(table).answer_raw,
                norm |-> Head(table).answer_norm]>>
        ELSE <<>>)
         \o StoredAnswers(Tail(table), c)

\* (case_id, field_id) is a key of the table
KeyIsUnique(table) ==
  \A i, j \in 1..Len(table) :
    (table[i].case_id = table[j].case_id
       /\ table[i].field_id = table[j].field_id) => i = j

\* the step of PUT p that ends its first part
PutStep(p) == put[p].pc = "requested" /\ put'[p].pc # "requested"

\* C24: an answer update changes only what it names: it replaces the stored
\* raw and normalized values of exactly the field_ids of its payload for its
\* case and leaves every other stored answer of the case and all answers of
\* the other cases unchanged; for an unknown case id it fails with not-found
\* and stores nothing; and the issues it returns are those of validation
\* over all stored answers of the case, not only those of the payload.
C24_PutChangesOnlyPayload ==
  [][\A p \in Puts :
       /\ (PutStep(p) /\ put[p].case_id \notin CaseIds) =>
            /\ put'[p].pc = "failed"
            /\ put'[p].error = "case_not_found"
            /\ case_answers' = case_answers
       /\ (PutStep(p) /\ put'[p].pc = "failed") => case_answers' = case_answers
       /\ (PutStep(p) /\ put'[p].pc = "stored") =>
            /\ put[p].case_id \in CaseIds
            /\ KeyIsUnique(case_answers')
            /\ \A c \in CaseIds : \A f \in AnswerFieldIds :
                 RowAt(case_answers', c, f)
                   = IF c = put[p].case_id /\ f \in PayloadIds(p)
                     THEN PutRow(p, f) ELSE RowAt(case_answers, c, f)
       /\ (put[p].pc = "stored" /\ put'[p].pc = "done") =>
            /\ case_answers' = case_answers
            /\ put'[p].issues
                 = validate_answers(AnswerCatalog,
                                    StoredAnswers(case_answers, put[p].case_id)).val
    ]_vars

\* a PUT that names only the optional field of a case has returned; the
\* required field, stored by another PUT, is still there next to the field
\* it stored, and its issues do not report the required field as missing
C24_Witness ==
  \E p, q \in Puts :
    /\ p # q
    /\ put[p].pc = "done"
    /\ put[q].pc \in {"stored", "done"}
    /\ put[p].case_id = put[q].case_id
    /\ PayloadIds(p) = {"F2"}
    /\ PayloadIds(q) = {"F1"}
    /\ RowAt(case_answers, put[p].case_id, "F1").raw = AnswerText(PayloadValue(q, "F1"))
    /\ RowAt(case_answers, put[p].case_id, "F2") = PutRow(p, "F2")
    /\ RowAt(case_answers, put[p].case_id, "F2").norm
         # RowAt(case_answers, put[p].case_id, "F2").raw
    /\ \A i \in 1..Len(put[p].issues) : put[p].issues[i].field_id # "F1"

=============================================================================
